---- MODULE Spec2Model ----
(***************************************************************************)
(* fm-prime: the file-backed prime cache (output-big/output-<N>/Output<i>  *)
(* .txt), the primality oracles that read it and the generators that grow, *)
(* shrink and create it.                                                    *)
(*                                                                          *)
(* Decimal strings are modelled by the natural number they denote; the     *)
(* text of a page file is modelled as the sequence of its lexical pieces   *)
(* (number, ",", "\n", " | " and "(k)"), so that formatting and parsing    *)
(* are computed as the code computes them.                                 *)
(***************************************************************************)
EXTENDS Integers, Sequences, FiniteSets, TLC

(***************************************************************************)
(* Bounds of the model.                                                     *)
(***************************************************************************)
MaxQuery == 50

NumProcs == 2

Targets == {2, 6, 10}

Procs == 1..NumProcs

(***************************************************************************)
(* Text of a page file.                                                     *)
(***************************************************************************)
Num(n) == [k |-> "num", v |-> n]

Par(n) == [k |-> "par", v |-> n]

Comma == [k |-> "comma", v |-> 0]

NL == [k |-> "nl", v |-> 0]

Bar == [k |-> "bar", v |-> 0]

Front(s) == SubSeq(s, 1, Len(s) - 1)

Last(s) == s[Len(s)]

RECURSIVE Flatten(_)
Flatten(ss) == IF ss = <<>> THEN <<>> ELSE Head(ss) \o Flatten(Tail(ss))

\* String.prototype.split(sep) for a one-piece separator: the pieces between
\* the separators, the empty string included ("a,".split(",") is ["a", ""]).
RECURSIVE SplitFrom(_, _, _)
SplitFrom(text, sep, cur) ==
  IF text = <<>> THEN <<cur>>
  ELSE IF Head(text) = sep THEN <<cur>> \o SplitFrom(Tail(text), sep, <<>>)
  ELSE SplitFrom(Tail(text), sep, Append(cur, Head(text)))

Split(text, sep) == SplitFrom(text, sep, <<>>)

\* Array.prototype.join(sep)
RECURSIVE Join(_, _)
Join(parts, sep) ==
  IF parts = <<>> THEN <<>>
  ELSE IF Len(parts) = 1 THEN parts[1]
  ELSE parts[1] \o <<sep>> \o Join(Tail(parts), sep)

\* .replace(/(\(\d+\) \| )/g, ""): every "(k) | " is removed
RECURSIVE RemoveIndexPrefix(_)
RemoveIndexPrefix(text) ==
  IF Len(text) < 2 THEN text
  ELSE IF text[1].k = "par" /\ text[2].k = "bar"
       THEN RemoveIndexPrefix(Tail(Tail(text)))
       ELSE <<text[1]>> \o RemoveIndexPrefix(Tail(text))

\* .replace(/\n/g, "")
RemoveNewlines(text) == SelectSeq(text, LAMBDA c : c.k # "nl")

\* a token that is the decimal string of a number
IsNumTok(tok) == Len(tok) = 1 /\ tok[1].k = "num"

TokVal(tok) == tok[1].v

primesInFile(text) ==
  Front(Split(RemoveNewlines(RemoveIndexPrefix(text)), Comma))

(***************************************************************************)
(* Arithmetic on decimal strings (mathOperations.optimized.mjs).           *)
(***************************************************************************)
\* findMax returns its first argument only when it is the strictly larger one
findMax(a, b) == IF a > b THEN a ELSE b

\* Math.floor(Math.sqrt(Number(num))) for strings shorter than 15 digits
sqrtFloor(n) == CHOOSE r \in 0..n : r * r <= n /\ (r + 1) * (r + 1) > n

isDivisibleBy2(x) == x % 2 = 0

\* the digit sum of a negative string ("-2") is NaN, and NaN % 3 === 0 is false
isDivisibleBy3(x) == x >= 0 /\ x % 3 = 0

isDivisibleBy5(x) == x % 5 = 0

isDivisibleBy6(x) == isDivisibleBy2(x) /\ isDivisibleBy3(x)

(***************************************************************************)
(* Candidate generation and direct trial division.                         *)
(***************************************************************************)
\* a candidate step that knows only the 6k-1 residue
findNextCandidateMinusOnly(current) == current + 6

findNextCandidate(current) ==
  IF current = 2 THEN 3
  ELSE IF current = 3 THEN 5
  ELSE IF current % 6 = 5 THEN current + 2
  ELSE IF current % 6 = 1 THEN current + 4
  ELSE ((current \div 6) + 1) * 6 - 1

\* candidate is a decimal string; "0" gives the division-by-zero message, whose
\* second character is not "0"
isDivisor(number, candidate) ==
  /\ candidate # 0
  /\ number % candidate = 0
  /\ number # candidate

\* isDivisor applied to an entry read from a page: an empty entry is falsy, and
\* an entry that is no decimal string ("(4)2") is longer than every number of
\* this model, so the long division leaves the whole number as remainder
isDivisorTok(number, tok) ==
  /\ IsNumTok(tok)
  /\ isDivisor(number, TokVal(tok))

\* isPrime(number, partition = "1"): the only partition is "0" and k runs over
\* 0..partitionRange with partitionRange = sqrtLimit + 1
isPrime(number) ==
  IF number = 2 \/ number = 3 THEN TRUE
  ELSE IF \/ number = 1
          \/ isDivisibleBy2(number)
          \/ isDivisibleBy3(number)
          \/ (~isDivisibleBy6(number - 7) /\ ~isDivisibleBy6(number - 5))
       THEN FALSE
  ELSE LET partitionRange == sqrtFloor(number) + 1
       IN \A k \in 0..partitionRange :
             /\ ~isDivisor(number, 5 + 6 * k)
             /\ ~isDivisor(number, 5 + 6 * k + 2)

RECURSIVE isPrimeOptimizedLoop(_, _, _)
isPrimeOptimizedLoop(number, sqrtLimit, candidate) ==
  IF candidate > sqrtLimit THEN TRUE
  ELSE IF isDivisor(number, candidate) THEN FALSE
  ELSE isPrimeOptimizedLoop(number, sqrtLimit, findNextCandidate(candidate))

isPrimeOptimized(number) ==
  IF number = 2 \/ number = 3 THEN TRUE
  ELSE IF \/ number = 1
          \/ isDivisibleBy2(number)
          \/ isDivisibleBy3(number)
          \/ (~isDivisibleBy6(number - 7) /\ ~isDivisibleBy6(number - 5))
       THEN FALSE
  ELSE isPrimeOptimizedLoop(number, sqrtFloor(number), 5)

notPrimeBasicChecker(number) ==
  IF number = 1 THEN TRUE
  ELSE IF number = 2 \/ number = 3 \/ number = 5 THEN FALSE
  ELSE IF isDivisibleBy2(number) THEN TRUE
  ELSE IF isDivisibleBy3(number) THEN TRUE
  ELSE IF isDivisibleBy5(number) THEN TRUE
  ELSE ~isDivisibleBy6(number - 7) /\ ~isDivisibleBy6(number - 5)

(***************************************************************************)
(* The cache directory: dirs maps each bound N for which output-big/       *)
(* output-N exists to that folder, a function from file names to texts.    *)
(***************************************************************************)
\* Output<n>.txt
OutputName(n) == [pre |-> "Output", n |-> n]

NotFound == -1

Min(S) == CHOOSE x \in S : \A y \in S : x <= y

Max(S) == CHOOSE x \in S : \A y \in S : x >= y

\* the names of a folder ordered by the number in the name
RECURSIVE SortNames(_)
SortNames(names) ==
  IF names = {} THEN <<>>
  ELSE LET first == CHOOSE f \in names : \A g \in names : f.n <= g.n
       IN <<first>> \o SortNames(names \ {first})

parseAndSortFiles(folder) == SortNames(DOMAIN folder)

\* the first folder, in ascending order of bound, whose bound is larger than number
findMatchingFolder(dirs, number) ==
  LET larger == {b \in DOMAIN dirs : findMax(b, number) # number}
  IN IF larger = {} THEN NotFound ELSE Min(larger)

\* undefined (NotFound) when no folder exists
findLastExistingFolderNumber(dirs) ==
  IF DOMAIN dirs = {} THEN NotFound ELSE Max(DOMAIN dirs)

RECURSIVE Includes(_, _)
Includes(text, pattern) ==
  IF Len(text) < Len(pattern) THEN FALSE
  ELSE IF SubSeq(text, 1, Len(pattern)) = pattern THEN TRUE
  ELSE Includes(Tail(text), pattern)

checkNumberInFile(num, text) ==
  \/ Includes(text, <<Bar, Num(num), Comma>>)
  \/ Includes(text, <<Comma, Num(num), Comma>>)

checkPrimeInFiles(dirs, num) ==
  LET folder == findMatchingFolder(dirs, num)
  IN IF folder = NotFound THEN FALSE
     ELSE \E f \in DOMAIN dirs[folder] : checkNumberInFile(num, dirs[folder][f])

\* folder is the bound of an existing folder
checkDivisorFromFiles(dirs, num, folder) ==
  IF checkPrimeInFiles(dirs, num) THEN FALSE
  ELSE \E f \in DOMAIN dirs[folder] :
         LET primes == primesInFile(dirs[folder][f])
         IN \E i \in 1..Len(primes) : isDivisorTok(num, primes[i])

(***************************************************************************)
(* The cache-backed oracles (primeChecker.optimized.mjs).  They are called *)
(* with the cache root readable and at least one folder in it; the actions *)
(* below decide what happens otherwise.                                    *)
(***************************************************************************)
RECURSIVE checkDivisorNotExistOnTextFilesRecursive(_, _, _)
checkDivisorNotExistOnTextFilesRecursive(number, sqrtNumber, current) ==
  IF current > sqrtNumber THEN TRUE
  ELSE IF isPrime(current) /\ isDivisor(number, current) THEN FALSE
  ELSE checkDivisorNotExistOnTextFilesRecursive(number, sqrtNumber, current + 1)

\* a JavaScript string is truthy unless it is empty
Truthy(str) == str # ""

RECURSIVE isPrimeFromTextFilesUpdated(_, _)
RECURSIVE checkDivisorNotExistOnTextFilesUpdated(_, _, _, _)
\* returns a message, never a boolean
checkDivisorNotExistOnTextFilesUpdated(dirs, number, sqrtNumber, current) ==
  IF current > sqrtNumber THEN "is a prime number."
  ELSE IF /\ Truthy(isPrimeFromTextFilesUpdated(dirs, current))
          /\ isDivisor(number, current)
       THEN "is dividable by"
  ELSE checkDivisorNotExistOnTextFilesUpdated(
         dirs, number, sqrtNumber, findNextCandidate(current))

isPrimeFromTextFilesUpdated(dirs, num) ==
  LET sqrtNum == sqrtFloor(num)
      folder == findMatchingFolder(dirs, sqrtNum)
      lastNumber == findLastExistingFolderNumber(dirs)
  IN IF folder # NotFound
     THEN IF checkDivisorFromFiles(dirs, num, folder)
          THEN "is not a prime number."
          ELSE "is a prime number."
     ELSE IF checkDivisorFromFiles(dirs, num, lastNumber)
          THEN "is not a prime number."
     ELSE checkDivisorNotExistOnTextFilesUpdated(
            dirs, num, sqrtNum, findNextCandidate(lastNumber))

RECURSIVE checkDivisorNotExistOnTextFilesRecursiveUpdated(_, _, _, _)
checkDivisorNotExistOnTextFilesRecursiveUpdated(dirs, number, sqrtNumber, current) ==
  IF current > sqrtNumber THEN TRUE
  ELSE IF /\ Truthy(isPrimeFromTextFilesUpdated(dirs, current))
          /\ isDivisor(number, current)
       THEN FALSE
  ELSE checkDivisorNotExistOnTextFilesRecursiveUpdated(
         dirs, number, sqrtNumber, findNextCandidate(current))

\* the value returned: "true", "false", or "undefined" when the function falls
\* off its end; "ENOENT" when readdirSync throws because output-big is missing
\* or, with no folder in it, because output-big/undefined is
isPrimeFromTextFilesRecursive(root, dirs, num) ==
  IF notPrimeBasicChecker(num) THEN "false"
  ELSE IF ~root \/ DOMAIN dirs = {} THEN "ENOENT"
  ELSE LET sqrtNum == sqrtFloor(num)
           folder == findMatchingFolder(dirs, sqrtNum)
           lastNumber == findLastExistingFolderNumber(dirs)
       IN IF folder # NotFound
          THEN IF checkDivisorFromFiles(dirs, num, folder) THEN "false" ELSE "true"
          ELSE IF checkDivisorFromFiles(dirs, num, lastNumber) THEN "false"
          ELSE IF checkDivisorNotExistOnTextFilesRecursive(num, sqrtNum, lastNumber + 1)
               THEN "true"
          ELSE "undefined"

isPrimeFromTextFilesRecursiveUpdated(root, dirs, num) ==
  IF notPrimeBasicChecker(num) THEN "false"
  ELSE IF ~root \/ DOMAIN dirs = {} THEN "ENOENT"
  ELSE LET sqrtNum == sqrtFloor(num)
           folder == findMatchingFolder(dirs, sqrtNum)
           lastNumber == findLastExistingFolderNumber(dirs)
       IN IF folder # NotFound
          THEN IF checkDivisorFromFiles(dirs, num, folder) THEN "false" ELSE "true"
          ELSE IF checkDivisorFromFiles(dirs, num, lastNumber) THEN "false"
          ELSE IF checkDivisorNotExistOnTextFilesRecursiveUpdated(
                    dirs, num, sqrtNum, findNextCandidate(lastNumber))
               THEN "true"
          ELSE "undefined"

(***************************************************************************)
(* The hyperbolic sieve and its cache (primeHyperbolic.optimized.mjs).     *)
(***************************************************************************)
\* BigInt division truncates toward zero
TruncDiv(a, b) == IF a >= 0 THEN a \div b ELSE -((-a) \div b)

\* isqrt returns n itself for n < 2, negative n included
isqrt(n) == IF n < 2 THEN n ELSE sqrtFloor(n)

QR64 == {0, 1, 4, 9, 16, 17, 25, 33, 36, 41, 49, 57}

QR63 == {0, 1, 4, 7, 9, 16, 18, 22, 25, 28, 36, 37, 43, 46, 49, 58}

QR65 == {0, 1, 4, 9, 10, 14, 16, 25, 26, 29, 30, 35, 36, 39, 40, 49, 51,
         55, 56, 61, 64}

\* n & 63n is the residue in 0..63 also for negative n
isSquareMod64(n) == (n % 64) \in QR64

\* the remainder of a negative BigInt is not positive: only 0 is in the set
isSquareMod63(n) == IF n >= 0 THEN (n % 63) \in QR63 ELSE (-n) % 63 = 0

isSquareMod65(n) == IF n >= 0 THEN (n % 65) \in QR65 ELSE (-n) % 65 = 0

\* the factor, or 0 for null
checkFactor(num, f) ==
  IF /\ f > 1
     /\ f < num
     /\ ((f - 1) % 6 = 0 \/ (f + 1) % 6 = 0)
     /\ num % f = 0
  THEN f ELSE 0

\* one turn of the interleaved search: the bottom-up test of r, then the
\* top-down test of 6k-1 and 6k+1
RECURSIVE divisionHyperbolicLoop(_, _, _, _, _, _)
divisionHyperbolicLoop(num, n6, isFirstTrend, maxR, r, k_idx) ==
  LET discriminant == IF isFirstTrend THEN 9 * r * r + n6 + 1
                                      ELSE 9 * r * r - n6 + 1
      m == isqrt(discriminant)
      f1 == IF isFirstTrend THEN m - 3 * r ELSE 3 * r - m
      f2 == IF isFirstTrend THEN m + 3 * r ELSE 3 * r + m
      square == /\ r <= maxR
                /\ isSquareMod64(discriminant)
                /\ isSquareMod63(discriminant)
                /\ isSquareMod65(discriminant)
                /\ m * m = discriminant
      nextR == IF r <= maxR THEN r + 1 ELSE r
      k1 == 6 * k_idx - 1
      k2 == 6 * k_idx + 1
  IN IF square /\ checkFactor(num, f1) # 0 THEN checkFactor(num, f1)
     ELSE IF square /\ checkFactor(num, f2) # 0 THEN checkFactor(num, f2)
     ELSE IF k1 > isqrt(num) THEN num
     ELSE IF k1 > 1 /\ num % k1 = 0 THEN k1
     ELSE IF k2 > 1 /\ num % k2 = 0 THEN k2
     ELSE divisionHyperbolicLoop(num, n6, isFirstTrend, maxR, nextR, k_idx + 1)

divisionHyperbolic(num) ==
  IF num % 2 = 0 THEN 2
  ELSE IF num % 3 = 0 THEN 3
  ELSE IF num % 5 = 0 THEN 5
  ELSE LET isFirstTrend == num % 6 = 1
           n == IF isFirstTrend THEN (num - 1) \div 6 ELSE (num + 1) \div 6
           limitA == IF isFirstTrend THEN TruncDiv(n - 8, 7) ELSE TruncDiv(n + 8, 7)
           limitB == IF isFirstTrend THEN TruncDiv(n - 4, 5) ELSE TruncDiv(n + 4, 5)
           maxR == IF limitA > limitB THEN limitA ELSE limitB
           startR == IF isFirstTrend THEN 0 ELSE isqrt((6 * n - 1) \div 9)
       IN divisionHyperbolicLoop(num, 6 * n, isFirstTrend, maxR, startR, 1)

isPrimeHyperbolicCore(num) ==
  IF num <= 3 THEN num > 1
  ELSE IF num % 2 = 0 \/ num % 3 = 0 THEN FALSE
  ELSE divisionHyperbolic(num) = num

\* the odd numbers i, i + 2, ... up to limit that pass the test
RECURSIVE hyperbolicOddScan(_, _)
hyperbolicOddScan(i, limit) ==
  IF i > limit THEN <<>>
  ELSE (IF i % 3 # 0 /\ isPrimeHyperbolicCore(i) THEN <<i>> ELSE <<>>)
       \o hyperbolicOddScan(i + 2, limit)

\* generatePrimesInRange(start, limit) of the hyperbolic module: start is exclusive
hyperbolicPrimesInRange(start, limit) ==
  LET first == IF start < 5 THEN 5 ELSE start + 1
      current == IF first % 2 = 0 THEN first + 1 ELSE first
  IN (IF start < 2 /\ 2 <= limit THEN <<2>> ELSE <<>>)
     \o (IF start < 3 /\ 3 <= limit THEN <<3>> ELSE <<>>)
     \o hyperbolicOddScan(current, limit)

PrimesPerLine == 20

\* "(i) | p," at the start of every line of twenty, "p," elsewhere
RECURSIVE formatPrimes(_, _)
formatPrimes(primes, i) ==
  IF i >= Len(primes) THEN <<>>
  ELSE (IF i % PrimesPerLine = 0
        THEN (IF i = 0 THEN <<>> ELSE <<NL>>) \o <<Par(i), Bar>>
        ELSE <<>>)
       \o <<Num(primes[i + 1]), Comma>>
       \o formatPrimes(primes, i + 1)

\* the text savePrimesToFolder writes to Output0.txt
savePrimesData(primes) == formatPrimes(primes, 0) \o <<NL, Par(Len(primes))>>

\* the entries kept by readPrimesFromFolder: not empty and not starting with "("
HasBar(tok) == \E i \in 1..Len(tok) : tok[i].k = "bar"

\* an entry holding a "|" is replaced by what follows the "|"
afterBar(tok) == IF HasBar(tok) THEN Split(tok, Bar)[2] ELSE tok

RECURSIVE numericEntries(_)
numericEntries(toks) ==
  IF toks = <<>> THEN <<>>
  ELSE (IF IsNumTok(afterBar(Head(toks)))
        THEN <<TokVal(afterBar(Head(toks)))>> ELSE <<>>)
       \o numericEntries(Tail(toks))

RECURSIVE readFiles(_, _)
readFiles(folder, names) ==
  IF names = <<>> THEN <<>>
  ELSE numericEntries(primesInFile(folder[Head(names)]))
       \o readFiles(folder, Tail(names))

readPrimesFromFolder(folder) ==
  readFiles(folder, SortNames({f \in DOMAIN folder : f.pre = "Output"}))

(***************************************************************************)
(* Folders and files (fileOperations.mjs).                                 *)
(***************************************************************************)
EmptyFolder == [f \in {} |-> <<>>]

\* fs.mkdirSync(dir, {recursive: true}): no error when dir exists already
createOutputFolder(dirs, number) ==
  IF number \in DOMAIN dirs THEN dirs
  ELSE [b \in DOMAIN dirs \cup {number} |->
          IF b = number THEN EmptyFolder ELSE dirs[b]]

\* the file name argument: a page index (a JavaScript number) or a string
NumberArg(i) == [type |-> "number", name |-> OutputName(i)]

StringArg(name) == [type |-> "string", name |-> name]

\* filename.match(...) is not a function when filename is a number; the write
\* itself appends (flag "a") and fails when the folder is gone
writeDataToFile(dirs, number, filename, data) ==
  IF filename.type = "number" THEN [err |-> "TypeError", dirs |-> dirs]
  ELSE IF number \notin DOMAIN dirs THEN [err |-> "ENOENT", dirs |-> dirs]
  ELSE LET folder == dirs[number]
           name == filename.name
           before == IF name \in DOMAIN folder THEN folder[name] ELSE <<>>
           after == [f \in DOMAIN folder \cup {name} |->
                       IF f = name THEN before \o data ELSE folder[f]]
       IN [err |-> "", dirs |-> [dirs EXCEPT ![number] = after]]

(***************************************************************************)
(* Filtering a larger folder down to a bound (helper.optimized.mjs).       *)
(***************************************************************************)
Undefined == <<[k |-> "undefined", v |-> 0]>>

\* what is left of a line that has not the shape "(c) | p,...": kept as one piece
Garbled == <<[k |-> "garbled", v |-> 0]>>

\* the entries of items, in order, that are decimal strings not larger than num
RECURSIVE keepUpTo(_, _)
keepUpTo(items, num) ==
  IF items = <<>> THEN <<>>
  ELSE (IF IsNumTok(Head(items)) /\ TokVal(Head(items)) <= num
        THEN <<Head(items)>> ELSE <<>>)
       \o keepUpTo(Tail(items), num)

\* [text, keep going]
filterLineData(line, num, lastCount) ==
  LET lineElements == Split(line, Comma)
      size == Len(lineElements)
      lastPrime == IF size >= 2 THEN lineElements[size - 1] ELSE Undefined
      first == lineElements[1]
      shaped == Len(first) = 3 /\ first[1].k = "par" /\ first[2].k = "bar"
                /\ first[3].k = "num"
      countToLastLine == first[1].v
      items == <<<<first[3]>>>> \o SubSeq(lineElements, 2, size - 1)
      kept == keepUpTo(items, num)
  IN IF \/ lastPrime = Undefined
        \/ lastPrime = <<>>
        \/ (IsNumTok(lastPrime) /\ TokVal(lastPrime) < num)
     THEN <<line, TRUE>>
     ELSE IF ~shaped THEN <<Garbled, FALSE>>
     ELSE IF first[3].v >= num THEN <<<<Par(countToLastLine)>>, FALSE>>
     ELSE << <<Par(countToLastLine), Bar>> \o Join(kept, Comma)
               \o <<Comma, NL, Par(countToLastLine + Len(kept))>>, FALSE>>

RECURSIVE filterLines(_, _, _)
filterLines(fileLines, num, lastCount) ==
  IF fileLines = <<>> THEN <<>>
  ELSE LET lineResult == filterLineData(Head(fileLines), num, lastCount)
       IN <<lineResult[1]>> \o
          (IF lineResult[2] THEN filterLines(Tail(fileLines), num, lastCount)
           ELSE <<>>)

formattedDataFromSelectedFile(text, num) ==
  LET fileLines == Split(text, NL)
  IN Join(filterLines(Front(fileLines), num, Last(fileLines)), NL)

\* data.split("| ")[1].split(",")[0]; Undefined when the text holds no "| "
firstData(text) ==
  IF ~HasBar(text) THEN Undefined
  ELSE Split(Split(text, Bar)[2], Comma)[1]

\* the files copySelectedFiles selects: those whose first entry is not larger
\* than num, in the order of files
RECURSIVE selectFiles(_, _, _)
selectFiles(folder, files, num) ==
  IF files = <<>> THEN <<>>
  ELSE (IF /\ IsNumTok(firstData(folder[Head(files)]))
           /\ TokVal(firstData(folder[Head(files)])) <= num
        THEN <<Head(files)>> ELSE <<>>)
       \o selectFiles(folder, Tail(files), num)

(***************************************************************************)
(* The generators (primeGenerator.optimized.mjs).  A page is flushed every *)
(* 1000000 primes, which no run of this model reaches.                     *)
(***************************************************************************)
\* the text added to dataBuffer for the prime current
bufferEntry(count, current) ==
  IF count % PrimesPerLine = 0
  THEN <<NL, Par(count), Bar, Num(current), Comma>>
  ELSE <<Num(current), Comma>>

\* count++; NaN (-1) stays NaN
Inc(count) == IF count < 0 THEN count ELSE count + 1

\* the loop of generatePrimesUpTo: the buffer, the count and the number of
\* primality tests made
RECURSIVE generatePrimesUpToLoop(_, _, _, _, _)
generatePrimesUpToLoop(number, current, dataBuffer, count, tests) ==
  IF current > number
  THEN [err |-> "", data |-> dataBuffer, count |-> count, tests |-> tests]
  ELSE IF isPrimeOptimized(current)
  THEN generatePrimesUpToLoop(number, findNextCandidate(current),
         dataBuffer \o bufferEntry(count, current), Inc(count), tests + 1)
  ELSE generatePrimesUpToLoop(number, findNextCandidate(current),
         dataBuffer, count, tests + 1)

\* the loop of generatePrimesRecursiveUpdated, which asks the cache-backed oracle
RECURSIVE generatePrimesRecursiveUpdatedLoop(_, _, _, _, _, _, _)
generatePrimesRecursiveUpdatedLoop(root, dirs, number, current, dataBuffer, count, tests) ==
  IF current > number
  THEN [err |-> "", data |-> dataBuffer, count |-> count, tests |-> tests]
  ELSE LET answer == isPrimeFromTextFilesRecursiveUpdated(root, dirs, current)
       IN IF answer = "ENOENT"
          THEN [err |-> "ENOENT", data |-> dataBuffer, count |-> count,
                tests |-> tests + 1]
          ELSE IF answer = "true"
          THEN generatePrimesRecursiveUpdatedLoop(root, dirs, number,
                 findNextCandidate(current),
                 dataBuffer \o bufferEntry(count, current), Inc(count), tests + 1)
          ELSE generatePrimesRecursiveUpdatedLoop(root, dirs, number,
                 findNextCandidate(current), dataBuffer, count, tests + 1)

\* formatLastFileInLastFolderRecursiveUpdated: the last line of the last page is
\* taken for the count and the lines before it for the buffer; +"0 | 2,3," is NaN,
\* written here as -1
lastCountOf(text) ==
  LET lastLine == Last(Split(text, NL))
  IN IF Len(lastLine) = 1 /\ lastLine[1].k = "par" THEN lastLine[1].v ELSE -1

dataBufferOf(text) == Join(Front(Split(text, NL)), NL)

(***************************************************************************)
(* State.                                                                   *)
(***************************************************************************)
VARIABLES
  rootExists,  \* ./output-big exists
  dirs,        \* bound N |-> folder output-N (file name |-> text)
  pc,          \* where each process is in the call it is making
  local,       \* the local variables of that call
  ret,         \* the last completed writer call: who made it, what it returned
  verdict,     \* the oracle question asked last, if nothing happened since
  calc         \* a direct call of a pure function: its arguments and result

vars == <<rootExists, dirs, pc, local, ret, verdict, calc>>

NoLocal == [op |-> "none", n |-> 0, buf |-> <<>>, text |-> <<>>, count |-> 0,
            cur |-> 0, src |-> 0]

NoVerdict == [fn |-> "none", n |-> 0, res |-> "none"]

NoCalc == [fn |-> "none", args |-> <<>>, out |-> "none", res |-> <<>>]

NoRet == [p |-> 0, op |-> "none", n |-> 0, out |-> "none", val |-> <<>>,
          tests |-> 0]

\* out is the kind of the outcome (the name of the error when the call threw),
\* val the value returned, tests the number of primality tests the call made
Returned(op, n, out, val, tests) ==
  [p |-> 0, op |-> op, n |-> n, out |-> out, val |-> val, tests |-> tests]

Init ==
  /\ rootExists = FALSE
  /\ dirs = [b \in {} |-> EmptyFolder]
  /\ pc = [p \in Procs |-> "idle"]
  /\ local = [p \in Procs |-> NoLocal]
  /\ ret = NoRet
  /\ verdict = NoVerdict
  /\ calc = NoCalc

\* process p finishes its call with the given outcome
Finish(p, r) ==
  /\ pc' = [pc EXCEPT ![p] = "idle"]
  /\ local' = [local EXCEPT ![p] = NoLocal]
  /\ ret' = [r EXCEPT !.p = p]
  /\ verdict' = NoVerdict
  /\ calc' = calc

\* process p goes on to the next step of its call
Goto(p, label, l) ==
  /\ pc' = [pc EXCEPT ![p] = label]
  /\ local' = [local EXCEPT ![p] = l]
  /\ ret' = ret
  /\ verdict' = NoVerdict
  /\ calc' = calc

(***************************************************************************)
(* sieveHyperbolicOptimized(N)                                              *)
(***************************************************************************)
\* the candidates generatePrimesInRange(start, limit) tests
hyperbolicTests(start, limit) ==
  LET first == IF start < 5 THEN 5 ELSE start + 1
      current == IF first % 2 = 0 THEN first + 1 ELSE first
  IN Cardinality({i \in current..limit : (i - current) % 2 = 0 /\ i % 3 # 0})

\* numFolderExist, findLargestExistingLimit and the computation of the list
SieveStart(p, N) ==
  /\ pc[p] = "idle"
  /\ IF N \in DOMAIN dirs
     THEN /\ Finish(p, Returned("sieve", N, "list", readPrimesFromFolder(dirs[N]), 0))
          /\ UNCHANGED <<rootExists, dirs>>
     ELSE LET largestExisting == findLastExistingFolderNumber(dirs)
              cachedPrimes == readPrimesFromFolder(dirs[largestExisting])
          IN /\ UNCHANGED <<rootExists, dirs>>
             /\ IF largestExisting # NotFound /\ largestExisting < N
                THEN Goto(p, "sieve_create",
                       [NoLocal EXCEPT !.op = "sieve", !.n = N,
                          !.buf = cachedPrimes
                                  \o hyperbolicPrimesInRange(largestExisting, N),
                          !.count = hyperbolicTests(largestExisting, N)])
                ELSE IF largestExisting # NotFound
                THEN Goto(p, "sieve_create",
                       [NoLocal EXCEPT !.op = "sieve", !.n = N,
                          !.buf = SelectSeq(cachedPrimes, LAMBDA q : q <= N)])
                ELSE Goto(p, "sieve_create",
                       [NoLocal EXCEPT !.op = "sieve", !.n = N,
                          !.buf = hyperbolicPrimesInRange(1, N),
                          !.count = hyperbolicTests(1, N)])

\* savePrimesToFolder: createOutputFolder
SieveCreate(p) ==
  /\ pc[p] = "sieve_create"
  /\ rootExists' = TRUE
  /\ dirs' = createOutputFolder(dirs, local[p].n)
  /\ Goto(p, "sieve_write", local[p])

\* savePrimesToFolder: writeDataToFile(folderPath, "Output0.txt", data)
SieveWrite(p) ==
  /\ pc[p] = "sieve_write"
  /\ LET w == writeDataToFile(dirs, local[p].n, StringArg(OutputName(0)),
                              savePrimesData(local[p].buf))
     IN /\ dirs' = w.dirs
        /\ IF w.err # ""
           THEN Finish(p, Returned("sieve", local[p].n, w.err, <<>>, local[p].count))
           ELSE Finish(p, Returned("sieve", local[p].n, "list", local[p].buf,
                                   local[p].count))
  /\ UNCHANGED rootExists

(***************************************************************************)
(* generatePrimesUpTo(N)                                                    *)
(***************************************************************************)
\* numFolderExist(number)
UpToStart(p, N) ==
  /\ pc[p] = "idle"
  /\ UNCHANGED <<rootExists, dirs>>
  /\ IF N \in DOMAIN dirs
     THEN Finish(p, Returned("upto", N, "undefined", <<>>, 0))
     ELSE Goto(p, "upto_create", [NoLocal EXCEPT !.op = "upto", !.n = N])

\* createOutputFolder(number)
UpToCreate(p) ==
  /\ pc[p] = "upto_create"
  /\ rootExists' = TRUE
  /\ dirs' = createOutputFolder(dirs, local[p].n)
  /\ Goto(p, "upto_loop", local[p])

\* the loop from "2" and writeDataToFile(folderName, pageIndex, ...) with the
\* page index 0, a number
UpToFinish(p) ==
  /\ pc[p] = "upto_loop"
  /\ LET loop == generatePrimesUpToLoop(local[p].n, 2, <<>>, 0, 0)
         w == writeDataToFile(dirs, local[p].n, NumberArg(0),
                              loop.data \o <<NL, Par(loop.count)>>)
     IN /\ dirs' = w.dirs
        /\ IF w.err # ""
           THEN Finish(p, Returned("upto", local[p].n, w.err, <<>>, loop.tests))
           ELSE Finish(p, Returned("upto", local[p].n, "count", <<loop.count>>,
                                   loop.tests))
  /\ UNCHANGED rootExists

(***************************************************************************)
(* generatePrimesFilesUpdated(N): generatePrimeOutputFromText(N), then     *)
(* copyFilesAndFormatLastFileUpdated(N) when N is beyond the largest folder *)
(***************************************************************************)
FilesStart(p, N) ==
  /\ pc[p] = "idle"
  /\ UNCHANGED <<rootExists, dirs>>
  /\ IF N \in DOMAIN dirs
     THEN Finish(p, Returned("files", N, "undefined", <<>>, 0))
     ELSE IF ~rootExists
     THEN \* getAllFromDirectory("./output-big")
          Finish(p, Returned("files", N, "ENOENT", <<>>, 0))
     ELSE IF DOMAIN dirs = {}
     THEN \* findLargestOutputFolder returns undefined; undefined.split
          Finish(p, Returned("files", N, "TypeError", <<>>, 0))
     ELSE LET folderNumber == Max(DOMAIN dirs)
          IN IF findMax(folderNumber, N) = N
             THEN Goto(p, "grow_create", [NoLocal EXCEPT !.op = "files", !.n = N])
             ELSE Goto(p, "shrink_create",
                       [NoLocal EXCEPT !.op = "files", !.n = N, !.src = folderNumber])

\* copyAllPrimeOutputs: the source folder is listed, the target is created
ShrinkCreate(p) ==
  /\ pc[p] = "shrink_create"
  /\ IF local[p].src \notin DOMAIN dirs
     THEN /\ Finish(p, Returned("files", local[p].n, "ENOENT", <<>>, 0))
          /\ UNCHANGED <<rootExists, dirs>>
     ELSE /\ rootExists' = TRUE
          /\ dirs' = createOutputFolder(dirs, local[p].n)
          /\ Goto(p, "shrink_write",
                  [local[p] EXCEPT !.buf = parseAndSortFiles(dirs[local[p].src])])

\* the first file of files that cannot be read (ENOENT) or holds no "| "
\* (TypeError: data.split("| ")[1] is undefined); "" when there is none
RECURSIVE firstUnreadable(_, _, _)
firstUnreadable(folders, src, files) ==
  IF files = <<>> THEN ""
  ELSE IF src \notin DOMAIN folders THEN "ENOENT"
  ELSE IF Head(files) \notin DOMAIN folders[src] THEN "ENOENT"
  ELSE IF ~HasBar(folders[src][Head(files)]) THEN "TypeError"
  ELSE firstUnreadable(folders, src, Tail(files))

\* copySelectedFiles, formattedDataFromSelectedFile and the write of the
\* filtered last file
ShrinkWrite(p) ==
  /\ pc[p] = "shrink_write"
  /\ UNCHANGED rootExists
  /\ LET N == local[p].n
         src == local[p].src
         files == local[p].buf
         unreadable == firstUnreadable(dirs, src, files)
     IN IF unreadable # ""
        THEN /\ Finish(p, Returned("files", N, unreadable, <<>>, 0))
             /\ UNCHANGED dirs
        ELSE LET selectedFiles ==
                   IF files = <<>> THEN <<>> ELSE selectFiles(dirs[src], files, N)
             IN IF selectedFiles = <<>> \/ N \notin DOMAIN dirs
                THEN \* output-<src>/undefined is read, or cp has no target
                     /\ Finish(p, Returned("files", N, "ENOENT", <<>>, 0))
                     /\ UNCHANGED dirs
                ELSE LET copied == {selectedFiles[i] :
                                      i \in 1..(Len(selectedFiles) - 1)}
                         selectedFile == Last(selectedFiles)
                         afterCp == [dirs EXCEPT ![N] =
                            [f \in DOMAIN dirs[N] \cup copied |->
                               IF f \in copied THEN dirs[src][f] ELSE dirs[N][f]]]
                         w == writeDataToFile(afterCp, N, StringArg(selectedFile),
                                formattedDataFromSelectedFile(
                                  dirs[src][selectedFile], N))
                     IN /\ dirs' = w.dirs
                        /\ Finish(p, Returned("files", N,
                             IF w.err # "" THEN w.err ELSE "undefined", <<>>, 0))

\* copyFilesAndFormatLastFileUpdated up to createOutputFolder in
\* generatePrimesRecursiveUpdated
GrowCreate(p) ==
  /\ pc[p] = "grow_create"
  /\ LET N == local[p].n
         lastNumber == findLastExistingFolderNumber(dirs)
     IN IF lastNumber = NotFound \/ DOMAIN dirs[lastNumber] = {}
        THEN \* output-big/undefined is listed, or <last folder>/undefined is read
             /\ Finish(p, Returned("files", N, "ENOENT", <<>>, 0))
             /\ UNCHANGED <<rootExists, dirs>>
        ELSE IF N \in DOMAIN dirs
        THEN \* numFolderExist(number); copyAllFiles copies all pages but the last
             LET files == parseAndSortFiles(dirs[lastNumber])
                 copied == {files[i] : i \in 1..(Len(files) - 1)}
             IN /\ dirs' = [dirs EXCEPT ![N] =
                      [f \in DOMAIN dirs[N] \cup copied |->
                         IF f \in copied THEN dirs[lastNumber][f] ELSE dirs[N][f]]]
                /\ Finish(p, Returned("files", N, "undefined", <<>>, 0))
                /\ UNCHANGED rootExists
        ELSE LET lastText == dirs[lastNumber][Last(parseAndSortFiles(dirs[lastNumber]))]
             IN /\ rootExists' = TRUE
                /\ dirs' = createOutputFolder(dirs, N)
                /\ Goto(p, "grow_loop",
                     [local[p] EXCEPT !.src = lastNumber,
                        !.cur = findNextCandidate(lastNumber),
                        !.text = dataBufferOf(lastText),
                        !.count = lastCountOf(lastText)])

\* the loop of generatePrimesRecursiveUpdated and its writeDataToFile with the
\* page index, a number
GrowFinish(p) ==
  /\ pc[p] = "grow_loop"
  /\ UNCHANGED rootExists
  /\ LET N == local[p].n
         loop == generatePrimesRecursiveUpdatedLoop(rootExists, dirs, N,
                   local[p].cur, local[p].text, local[p].count, 0)
         w == writeDataToFile(dirs, N, NumberArg(0),
                              loop.data \o <<NL, Par(loop.count)>>)
     IN IF loop.err # ""
        THEN /\ Finish(p, Returned("files", N, loop.err, <<>>, loop.tests))
             /\ UNCHANGED dirs
        ELSE /\ dirs' = w.dirs
             /\ Finish(p, Returned("files", N,
                  IF w.err # "" THEN w.err ELSE "undefined", <<>>, loop.tests))
(***************************************************************************)
(* clearAllCache()                                                          *)
(***************************************************************************)
\* no call is in progress
Quiet == \A q \in Procs : pc[q] = "idle"

\* run while no writer is in the middle of a call: a writer that carried a list
\* read before the clearing over to a folder made after it would let the page
\* texts grow without bound
ClearAllCache(p) ==
  /\ Quiet
  /\ UNCHANGED rootExists
  /\ IF ~rootExists
     THEN /\ Finish(p, Returned("clear", 0, "none", <<0>>, 0))
          /\ UNCHANGED dirs
     ELSE /\ dirs' = [b \in {} |-> EmptyFolder]
          /\ Finish(p, Returned("clear", 0, "cleared",
                                <<Cardinality(DOMAIN dirs)>>, 0))

(***************************************************************************)
(* The oracle questions.                                                    *)
(***************************************************************************)
\* the second entry of the page is taken for its first prime and the entry
\* before the last for its last prime; "" when there is none
findMatchingFile(folder, number) ==
  LET matching == SelectSeq(SortNames({f \in DOMAIN folder : f.pre = "Output"}),
        LAMBDA f :
          LET primes == primesInFile(folder[f])
              size == Len(primes)
          IN /\ size >= 2
             /\ IsNumTok(primes[size - 1])
             /\ TokVal(primes[size - 1]) >= number
             /\ \/ primes[2] = <<>>
                \/ IsNumTok(primes[2]) /\ TokVal(primes[2]) <= number)
  IN IF matching = <<>> THEN <<>> ELSE <<Head(matching)>>

BoolOf(b) == IF b THEN "true" ELSE "false"

\* "ENOENT" when readdirSync throws in findMatchingFolder
isPrimeUsingFiles(root, folders, number) ==
  IF ~root THEN "ENOENT"
  ELSE LET folder == findMatchingFolder(folders, number)
       IN IF folder = NotFound THEN BoolOf(isPrime(number))
          ELSE LET file == findMatchingFile(folders[folder], number)
               IN IF file # <<>>
                  THEN BoolOf(checkNumberInFile(number, folders[folder][file[1]]))
                  ELSE BoolOf(isPrime(number))

\* checkDivisorNotExistOnTextFiles(number, sqrtNumber, current): the loop runs
\* while current <= sqrtNumber and returns a message
RECURSIVE checkDivisorNotExistOnTextFiles(_, _, _)
checkDivisorNotExistOnTextFiles(number, sqrtNumber, current) ==
  IF current > sqrtNumber THEN "is a prime number."
  ELSE IF isPrime(current) /\ isDivisor(number, current) THEN "is dividable by"
  ELSE checkDivisorNotExistOnTextFiles(number, sqrtNumber, current + 1)

\* isPrimeFromTextFiles(num): no notPrimeBasicChecker in front, so a missing
\* cache root makes readdirSync throw for every num
isPrimeFromTextFiles(root, folders, num) ==
  IF ~root \/ DOMAIN folders = {} THEN "ENOENT"
  ELSE LET sqrtNum == sqrtFloor(num)
           folder == findMatchingFolder(folders, sqrtNum)
           lastNumber == findLastExistingFolderNumber(folders)
       IN IF folder # NotFound
          THEN IF checkDivisorFromFiles(folders, num, folder)
               THEN "is not a prime number."
               ELSE "is not dividable by any prime up to floor sqrt root of it. is a prime number."
          ELSE IF checkDivisorFromFiles(folders, num, lastNumber)
               THEN "is not a prime number."
          ELSE checkDivisorNotExistOnTextFiles(num, sqrtNum, lastNumber + 1)

OracleNames == {"isPrimeFromTextFilesRecursive",
                "isPrimeFromTextFilesRecursiveUpdated", "isPrimeUsingFiles"}

\* the two oracles that answer with a message
MessageOracleNames == {"isPrimeFromTextFiles", "isPrimeFromTextFilesUpdated"}

oracle(fn, root, folders, n) ==
  IF fn = "isPrimeFromTextFilesRecursive"
  THEN isPrimeFromTextFilesRecursive(root, folders, n)
  ELSE IF fn = "isPrimeFromTextFilesRecursiveUpdated"
  THEN isPrimeFromTextFilesRecursiveUpdated(root, folders, n)
  ELSE IF fn = "isPrimeFromTextFiles"
  THEN isPrimeFromTextFiles(root, folders, n)
  ELSE IF fn = "isPrimeFromTextFilesUpdated"
  THEN IF ~root \/ DOMAIN folders = {} THEN "ENOENT"
       ELSE isPrimeFromTextFilesUpdated(folders, n)
  ELSE isPrimeUsingFiles(root, folders, n)

\* the cache after an oracle that extends it where no folder reaches the
\* square root, as isPrimeFromTextRecursiveUpdated does: copyAllFiles copies
\* the pages of the last folder into a new folder output-<sqrtNum>
oracleStoreExtending(fn, root, folders, n) ==
  IF \/ notPrimeBasicChecker(n)
     \/ ~root
     \/ DOMAIN folders = {}
     \/ findMatchingFolder(folders, sqrtFloor(n)) # NotFound
     \/ checkDivisorFromFiles(folders, n, findLastExistingFolderNumber(folders))
  THEN [root |-> root, dirs |-> folders]
  ELSE [root |-> root,
        dirs |-> [b \in DOMAIN folders \cup {sqrtFloor(n)} |->
                    IF b \in DOMAIN folders THEN folders[b]
                    ELSE folders[findLastExistingFolderNumber(folders)]]]

\* the cache after a call of one of the oracles above: findMatchingFolder and
\* findLastExistingFolderNumber call readdirSync, checkDivisorFromFiles and
\* primesInFile call readdirSync and readFileSync, the fallback loops call
\* nothing of fs; no createOutputFolder, writeDataToFile or copyAllFiles
oracleStore(fn, root, folders, n) == [root |-> root, dirs |-> folders]

\* a caller asks an oracle about n while no writer is at work; the answer is
\* kept until the next call starts
Ask(fn, n) ==
  /\ Quiet
  /\ verdict = NoVerdict
  /\ verdict' = [fn |-> fn, n |-> n, res |-> oracle(fn, rootExists, dirs, n)]
  /\ rootExists' = oracleStore(fn, rootExists, dirs, n).root
  /\ dirs' = oracleStore(fn, rootExists, dirs, n).dirs
  /\ UNCHANGED <<pc, local, ret, calc>>

(***************************************************************************)
(* numberDivisors: calculateDivisorsUsingText.                             *)
(***************************************************************************)
\* the position of the first entry of primes that decides primes.find(prime =>
\* divideNumbers(num, prime)[1] === "0"): an entry that divides num, or an
\* entry that is no decimal string; 0 when there is none
firstDeciding(primes, num) ==
  LET deciding == {i \in 1..Len(primes) :
                     \/ ~IsNumTok(primes[i])
                     \/ TokVal(primes[i]) # 0 /\ num % TokVal(primes[i]) = 0}
  IN IF deciding = {} THEN 0 ELSE Min(deciding)

\* only the first page is ever read: both branches of the loop body return.
\* The long division by an entry that is no decimal string is not modelled,
\* the outcome of such a call is kept apart as "NaN"
RECURSIVE checkDivisorsFromFiles(_, _, _, _)
checkDivisorsFromFiles(folders, num, folder, divisors) ==
  IF checkPrimeInFiles(folders, num)
  THEN [out |-> "ok", val |-> Append(divisors, num)]
  ELSE LET files == parseAndSortFiles(folders[folder])
       IN IF files = <<>> THEN [out |-> "undefined", val |-> <<>>]
          ELSE LET primes == primesInFile(folders[folder][files[1]])
                   found == firstDeciding(primes, num)
               IN IF found = 0
                  THEN [out |-> "ok", val |-> Append(divisors, num)]
                  ELSE IF ~IsNumTok(primes[found])
                  THEN [out |-> "NaN", val |-> <<>>]
                  ELSE checkDivisorsFromFiles(folders,
                         num \div TokVal(primes[found]), folder,
                         Append(divisors, TokVal(primes[found])))

\* "ENOENT" when readdirSync throws in findMatchingFolder, "TypeError" when
\* checkDivisorsFromFiles returns undefined and unshift is called on it
calculateDivisorsUsingText(root, folders, num) ==
  IF ~root THEN [out |-> "ENOENT", val |-> <<>>]
  ELSE LET folder == findMatchingFolder(folders, sqrtFloor(num))
       IN IF folder = NotFound
          THEN [out |-> "No suitable folder found", val |-> <<>>]
          ELSE LET divisors == checkDivisorsFromFiles(folders, num, folder, <<>>)
               IN IF divisors.out = "undefined"
                  THEN [out |-> "TypeError", val |-> <<>>]
                  ELSE IF divisors.out = "ok"
                  THEN [out |-> "ok", val |-> <<1>> \o divisors.val]
                  ELSE divisors

\* a caller asks for the divisors of n while no writer is at work
AskDivisors(n) ==
  /\ Quiet
  /\ verdict = NoVerdict
  /\ verdict' = [fn |-> "calculateDivisorsUsingText", n |-> n,
                 res |-> calculateDivisorsUsingText(rootExists, dirs, n)]
  /\ UNCHANGED <<rootExists, dirs, pc, local, ret, calc>>

\* the writers run concurrently, their file system calls interleaved
Next ==
  \/ \E p \in Procs, N \in Targets : SieveStart(p, N)
  \/ \E p \in Procs : SieveCreate(p)
  \/ \E p \in Procs : SieveWrite(p)
  \/ \E p \in Procs, N \in Targets : UpToStart(p, N)
  \/ \E p \in Procs : UpToCreate(p)
  \/ \E p \in Procs : UpToFinish(p)
  \/ \E p \in Procs, N \in Targets : FilesStart(p, N)
  \/ \E p \in Procs : ShrinkCreate(p)
  \/ \E p \in Procs : ShrinkWrite(p)
  \/ \E p \in Procs : GrowCreate(p)
  \/ \E p \in Procs : GrowFinish(p)
  \/ \E p \in Procs : ClearAllCache(p)

Spec == Init /\ [][Next]_vars

\* one call at a time, and oracle questions between the calls
NextQuiet ==
  \/ \E p \in Procs, N \in Targets : Quiet /\ SieveStart(p, N)
  \/ \E p \in Procs : SieveCreate(p)
  \/ \E p \in Procs : SieveWrite(p)
  \/ \E p \in Procs, N \in Targets : Quiet /\ UpToStart(p, N)
  \/ \E p \in Procs : UpToCreate(p)
  \/ \E p \in Procs : UpToFinish(p)
  \/ \E p \in Procs, N \in Targets : Quiet /\ FilesStart(p, N)
  \/ \E p \in Procs : ShrinkCreate(p)
  \/ \E p \in Procs : ShrinkWrite(p)
  \/ \E p \in Procs : GrowCreate(p)
  \/ \E p \in Procs : GrowFinish(p)
  \/ \E p \in Procs : ClearAllCache(p)
  \/ \E fn \in OracleNames, n \in 2..MaxQuery : Ask(fn, n)
  \/ \E fn \in MessageOracleNames, n \in 0..MaxQuery : Ask(fn, n)
  \/ \E n \in 1..MaxQuery : AskDivisors(n)

SpecQuiet == Init /\ [][NextQuiet]_vars

(***************************************************************************)
(* What the claims are measured against.                                    *)
(***************************************************************************)
\* n is prime by exhaustive trial division by every integer in [2, floor(sqrt n)]
TrialDivisionPrime(n) == n >= 2 /\ \A d \in 2..n : d * d > n \/ n % d # 0

\* the primes not larger than N, ascending
RECURSIVE PrimesFromTo(_, _)
PrimesFromTo(lo, hi) ==
  IF lo > hi THEN <<>>
  ELSE IF lo = hi THEN (IF TrialDivisionPrime(lo) THEN <<lo>> ELSE <<>>)
  ELSE PrimesFromTo(lo, (lo + hi) \div 2)
         \o PrimesFromTo((lo + hi) \div 2 + 1, hi)

PrimeList(N) == PrimesFromTo(2, N)

\* the primes of the pages of folder output-b, in page order
FolderPrimes(b) == readPrimesFromFolder(dirs[b])

\* the folder holds exactly the primes up to its bound
CacheFolderOK(b) == FolderPrimes(b) = PrimeList(b)

CacheCorrect == DOMAIN dirs # {} /\ \A b \in DOMAIN dirs : CacheFolderOK(b)

\* C1: with at least one folder and every folder holding all primes up to its
\* bound, the cache-backed oracles answer true for a prime n >= 2 and false for
\* a composite one, as trial division does, also when the largest bound is
\* below floor(sqrt n); the undefined a call returns by falling off its end is
\* taken for false
C1_OracleAgreesWithTrialDivision ==
  (/\ verdict.fn \in {"isPrimeFromTextFilesRecursive",
                      "isPrimeFromTextFilesRecursiveUpdated"}
   /\ CacheCorrect)
  => /\ verdict.res \in {"true", "false", "undefined"}
     /\ verdict.res = "true" <=> TrialDivisionPrime(verdict.n)

\* C2: after any sequence of create, grow and shrink calls, every folder of the
\* registry holds, in page order, exactly the ascending primes up to its bound
C2_EveryFolderHoldsThePrimesUpToItsBound ==
  Quiet => \A b \in DOMAIN dirs : CacheFolderOK(b)

\* the primes p with B < p <= N, ascending
PrimesBetween(B, N) == SelectSeq(PrimeList(N), LAMBDA q : q > B)

\* C3: a grow from the largest bound B < N leaves a folder for N whose primes
\* are those of folder B followed by every prime in (B, N] and nothing else
C3_GrowAppendsThePrimesAboveB ==
  [][\A p \in Procs :
       (/\ pc[p] = "grow_loop"
        /\ pc'[p] = "idle"
        /\ local[p].src \in DOMAIN dirs)
       => /\ local[p].n \in DOMAIN dirs'
          /\ readPrimesFromFolder(dirs'[local[p].n])
               = FolderPrimes(local[p].src)
                 \o PrimesBetween(local[p].src, local[p].n)]_vars

\* process p has created or found folder N and has not yet written its pages
Writing(p) == pc[p] \in {"sieve_write", "upto_loop", "shrink_write", "grow_loop"}

\* C4: no folder is in the registry (where numFolderExist, findMatchingFolder,
\* findLastExistingFolderNumber and findLargestOutputFolder look) before its
\* pages are written, the extension that creates it included
C4_NoFolderVisibleBeforeItsPagesAreWritten ==
  \A p \in Procs : Writing(p) => local[p].n \notin DOMAIN dirs

\* C5: of several writers for the same bound only the one that created the
\* folder writes: a page, once written, is not appended to or overwritten
C5_NoPageIsWrittenTwice ==
  [][\A b \in DOMAIN dirs \cap DOMAIN dirs' :
       \A f \in DOMAIN dirs[b] \cap DOMAIN dirs'[b] :
         dirs'[b][f] = dirs[b][f]]_vars

\* C6: the same call made twice in a row with the same N returns the same
\* result both times, and the second call makes no primality test
C6_SecondCallReturnsTheSameWithoutTests ==
  [][(/\ ret' # ret
      /\ ret.op \in {"sieve", "upto", "files"}
      /\ ret'.op = ret.op
      /\ ret'.n = ret.n
      /\ ret'.p = ret.p)
     => /\ ret'.out = ret.out
        /\ ret'.val = ret.val
        /\ ret'.tests = 0]_vars

\* folder b has its pages
FullyWritten(b) == b \in DOMAIN dirs /\ DOMAIN dirs[b] # {}

\* C7: once a folder is fully written no step, cache maintenance included,
\* changes, appends to, replaces or deletes a page of it
C7_WrittenFoldersAreNeverChanged ==
  [][\A b \in DOMAIN dirs :
       FullyWritten(b)
       => /\ b \in DOMAIN dirs'
          /\ \A f \in DOMAIN dirs[b] :
               f \in DOMAIN dirs'[b] /\ dirs'[b][f] = dirs[b][f]]_vars

\* C8: a shrink from folder C >= N writes for N exactly the primes of folder C
\* that are not larger than N, N included, ascending
C8_ShrinkKeepsThePrimesUpToN ==
  [][\A p \in Procs :
       (/\ pc[p] = "shrink_write"
        /\ pc'[p] = "idle"
        /\ local[p].src \in DOMAIN dirs)
       => /\ local[p].n \in DOMAIN dirs'
          /\ readPrimesFromFolder(dirs'[local[p].n])
               = SelectSeq(FolderPrimes(local[p].src),
                           LAMBDA q : q <= local[p].n)]_vars

\* C9: with no folder in the registry, generatePrimesFilesUpdated(N) generates
\* from the wheel base and leaves exactly the ascending primes up to N
C9_NoCachePathYieldsThePrimesUpToN ==
  [][\A p \in Procs, N \in Targets :
       (DOMAIN dirs = {} /\ FilesStart(p, N))
       => /\ ret'.out = "undefined"
          /\ N \in DOMAIN dirs'
          /\ readPrimesFromFolder(dirs'[N]) = PrimeList(N)]_vars

\* C10: when the cache root cannot be listed the oracles fall back to direct
\* trial division and give the right verdict instead of failing
C10_OracleFallsBackWhenRootIsMissing ==
  (verdict.fn \in OracleNames /\ ~rootExists)
  => verdict.res = BoolOf(TrialDivisionPrime(verdict.n))

\* the call threw
Failed(r) == r.out \in {"TypeError", "ENOENT"}

\* C11: when an extension (generatePrimesFilesUpdated) fails at some step, the
\* registry is afterwards as it was before the attempt: no folder for the target
\* bound is visible (the call started with no such folder, or it would have
\* returned at once)
C11_FailedExtensionLeavesNoFolder ==
  (Quiet /\ ret.op = "files" /\ Failed(ret)) => ret.n \notin DOMAIN dirs

(***************************************************************************)
(* The candidate generators of the wheels.                                 *)
(***************************************************************************)
\* generate6kCandidates after the small primes: the pairs 6k-1, 6k+1
RECURSIVE generate6kLoop(_, _, _, _)
generate6kLoop(k, numStart, numEnd, out) ==
  LET candidate1 == 6 * k - 1
      candidate2 == 6 * k + 1
      out1 == IF candidate1 >= numStart /\ candidate1 > 3
              THEN Append(out, candidate1) ELSE out
      out2 == IF candidate2 >= numStart /\ candidate2 <= numEnd
              THEN Append(out1, candidate2) ELSE out1
  IN IF candidate1 > numEnd THEN out
     ELSE generate6kLoop(k + 1, numStart, numEnd, out2)

\* Math.ceil((numStart - 1) / 6) is -0 for numStart = 0
generate6kCandidates(start, end) ==
  LET small == (IF start <= 2 /\ end >= 2 THEN <<2>> ELSE <<>>)
                 \o (IF start <= 3 /\ end >= 3 THEN <<3>> ELSE <<>>)
      k == Max({1, (start + 4) \div 6})
  IN generate6kLoop(k, start, end, small)

\* the residues mod 210 coprime to 210
SPOKES ==
  <<1, 11, 13, 17, 19, 23, 29, 31, 37, 41, 43, 47, 53, 59, 61, 67, 71, 73, 79,
    83, 89, 97, 101, 103, 107, 109, 113, 121, 127, 131, 137, 139, 143, 149,
    151, 157, 163, 167, 169, 173, 179, 181, 187, 191, 193, 197, 199, 209>>

\* SPOKES[pos] of the code, whose positions start at 0
spoke(pos) == SPOKES[pos + 1]

\* the first position of the rotation at base that is not below numStart
RECURSIVE wheel210StartPos(_, _, _)
wheel210StartPos(base, pos, numStart) ==
  IF base + spoke(pos) < numStart
  THEN wheel210StartPos(base, (pos + 1) % Len(SPOKES), numStart)
  ELSE pos

RECURSIVE wheel210Loop(_, _, _, _, _)
wheel210Loop(base, pos, numStart, numEnd, out) ==
  LET current == base + spoke(pos)
      nextPos == (pos + 1) % Len(SPOKES)
  IN IF current > numEnd THEN out
     ELSE wheel210Loop(IF nextPos = 0 THEN base + 210 ELSE base, nextPos,
                       numStart, numEnd,
                       IF current >= numStart THEN Append(out, current)
                       ELSE out)

\* Wheel210.generateCandidates(start, end)
generateCandidates(start, end) ==
  LET small == SelectSeq(<<2, 3, 5, 7, 11>>, LAMBDA p : start <= p /\ p <= end)
      base == IF start < 13 THEN 0 ELSE (start \div 210) * 210
      pos == IF start < 13 THEN 0 ELSE wheel210StartPos(base, 0, start)
  IN IF end < 13 THEN small
     ELSE wheel210Loop(base, pos, start, end, small)

\* what primeHybrid.optimized.mjs exports
primeHybridExports ==
  {"sieve6kOptimized", "HybridPrimeFinder", "generate6kCandidates",
   "findPrimes6kPattern", "demonstrateHybrid"}

\* Wheel30.generateCandidates(start, end) as its callers reach it: Wheel30 is
\* taken from the exports of primeHybrid.optimized.mjs, which has no mod-30
\* wheel, so the name is undefined and the call throws
wheel30GenerateCandidates(start, end) ==
  IF "Wheel30" \in primeHybridExports
  THEN [out |-> "ok", res |-> <<>>]
  ELSE [out |-> "TypeError", res |-> <<>>]

(***************************************************************************)
(* The sieves.                                                             *)
(***************************************************************************)
\* the keys of a candidate map, sorted by their numeric value
RECURSIVE sortedCandidates(_)
sortedCandidates(keys) ==
  IF keys = {} THEN <<>>
  ELSE <<Min(keys)>> \o sortedCandidates(keys \ {Min(keys)})

\* the 6k+-1 candidates sieve6kOptimized enters in its map
RECURSIVE sieve6kCandidates(_, _, _)
sieve6kCandidates(k, numLimit, candidates) ==
  LET candidate1 == 6 * k - 1
      candidate2 == 6 * k + 1
      with1 == IF candidate1 >= 5 THEN candidates \cup {candidate1}
               ELSE candidates
      with2 == IF candidate2 <= numLimit THEN with1 \cup {candidate2} ELSE with1
  IN IF candidate1 > numLimit THEN candidates
     ELSE sieve6kCandidates(k + 1, numLimit, with2)

\* a marking that leaves the square itself unmarked
markMultiplesAfterSquare(candidates, from, step, numLimit) ==
  {m \in candidates : m > from /\ m <= numLimit /\ (m - from) % step = 0}

\* the candidates set to false by the loop over multiple = from, from + step,
\* ... while multiple <= numLimit
markMultiples(candidates, from, step, numLimit) ==
  {m \in candidates : m >= from /\ m <= numLimit /\ (m - from) % step = 0}

\* the sieving phase over the sorted candidates: composite is the set of the
\* candidates whose map entry is false
RECURSIVE sievePhase(_, _, _, _, _)
sievePhase(sorted, candidates, composite, numLimit, sqrtLimit) ==
  IF sorted = <<>> THEN composite
  ELSE LET numCandidate == Head(sorted)
       IN IF numCandidate \in composite
          THEN sievePhase(Tail(sorted), candidates, composite, numLimit,
                          sqrtLimit)
          ELSE IF numCandidate > sqrtLimit THEN composite
          ELSE sievePhase(Tail(sorted), candidates,
                          composite \cup markMultiples(candidates,
                                          numCandidate * numCandidate,
                                          numCandidate, numLimit),
                          numLimit, sqrtLimit)

sieve6kOptimized(limit) ==
  IF limit < 2 THEN <<>>
  ELSE IF limit = 2 THEN <<2>>
  ELSE IF limit = 3 THEN <<2, 3>>
  ELSE LET candidates == sieve6kCandidates(1, limit, {})
           composite == sievePhase(sortedCandidates(candidates), candidates,
                                   {}, limit, sqrtFloor(limit))
       IN sortedCandidates({2, 3} \cup (candidates \ composite))

\* the map holds the candidates of Wheel210.generateCandidates("13", limit);
\* the multiples of 11 are marked first, as 11 is not among them
sieveWheel210(limit) ==
  IF limit < 2 THEN <<>>
  ELSE IF limit < 11 THEN SelectSeq(<<2, 3, 5, 7>>, LAMBDA p : p <= limit)
  ELSE LET generated == generateCandidates(13, limit)
           candidates == {generated[i] : i \in 1..Len(generated)}
           eleven == markMultiples(candidates, 11 * 11, 11, limit)
           composite == sievePhase(sortedCandidates(candidates), candidates,
                                   eleven, limit, sqrtFloor(limit))
       IN sortedCandidates({2, 3, 5, 7, 11} \cup (candidates \ composite))

(***************************************************************************)
(* The primes of a range.                                                  *)
(***************************************************************************)
\* generatePrimesInRange of primeGenerator.optimized.mjs: the loop runs while
\* current <= end and steps with findNextCandidate
RECURSIVE generatePrimesInRangeLoop(_, _, _)
generatePrimesInRangeLoop(current, end, primesInRange) ==
  IF current > end THEN primesInRange
  ELSE generatePrimesInRangeLoop(findNextCandidate(current), end,
         IF isPrimeOptimized(current) THEN Append(primesInRange, current)
         ELSE primesInRange)

generatePrimesInRange(start, end) == generatePrimesInRangeLoop(start, end, <<>>)

\* the limits a HybridPrimeFinder is constructed with, scaled down from
\* "10000" and "100000" so that ranges on both sides of the limit occur
PrecomputeLimits == {10, 100}

\* new HybridPrimeFinder(precomputeLimit): the small primes are computed once
HybridPrimeFinder(precomputeLimit) ==
  [smallPrimeLimit |-> precomputeLimit,
   smallPrimes |-> sieve6kOptimized(precomputeLimit)]

\* HybridPrimeFinder.isPrime(n)
hybridIsPrime(finder, n) ==
  IF n < 2 THEN FALSE
  ELSE IF findMax(n, finder.smallPrimeLimit) = finder.smallPrimeLimit
  THEN \E i \in 1..Len(finder.smallPrimes) : finder.smallPrimes[i] = n
  ELSE IF n % 2 = 0 \/ n % 3 = 0 \/ n % 5 = 0 THEN FALSE
  ELSE IF n % 6 # 1 /\ n % 6 # 5 THEN FALSE
  ELSE isPrimeOptimized(n)

RECURSIVE findPrimesInRangeLoop(_, _, _, _, _)
findPrimesInRangeLoop(finder, k, numStart, numEnd, primes) ==
  LET candidate1 == 6 * k - 1
      candidate2 == 6 * k + 1
      primes1 == IF /\ candidate1 >= numStart
                    /\ candidate1 > 3
                    /\ hybridIsPrime(finder, candidate1)
                 THEN Append(primes, candidate1) ELSE primes
      primes2 == IF /\ candidate2 >= numStart
                    /\ candidate2 <= numEnd
                    /\ hybridIsPrime(finder, candidate2)
                 THEN Append(primes1, candidate2) ELSE primes1
  IN IF candidate1 > numEnd THEN primes
     ELSE findPrimesInRangeLoop(finder, k + 1, numStart, numEnd, primes2)

\* HybridPrimeFinder.findPrimesInRange(start, end)
findPrimesInRange(finder, start, end) ==
  LET small == (IF start <= 2 /\ end >= 2 THEN <<2>> ELSE <<>>)
                 \o (IF start <= 3 /\ end >= 3 THEN <<3>> ELSE <<>>)
  IN IF end <= finder.smallPrimeLimit
     THEN SelectSeq(finder.smallPrimes, LAMBDA p : p >= start /\ p <= end)
     ELSE findPrimesInRangeLoop(finder, Max({1, (start + 4) \div 6}), start,
                                end, small)

\* the candidates of the wheel that isPrimeOptimized accepts, in the order
\* they are generated
primesInRangeWheel210(start, end) ==
  SelectSeq(generateCandidates(start, end), isPrimeOptimized)

(***************************************************************************)
(* numberDivisors: calculateDivisors.                                      *)
(***************************************************************************)
\* the first candidate 2, 3, 5, 7, 11, ... up to sqrtNum that divides num, or
\* NotFound when the inner loop ends without one
RECURSIVE findDivisor(_, _, _)
findDivisor(num, sqrtNum, currentDivisor) ==
  IF currentDivisor > sqrtNum THEN NotFound
  ELSE IF isDivisor(num, currentDivisor) THEN currentDivisor
  ELSE findDivisor(num, sqrtNum, findNextCandidate(currentDivisor))

\* the outer loop of calculateDivisors
RECURSIVE calculateDivisorsLoop(_, _)
calculateDivisorsLoop(num, divisors) ==
  IF num = 1 THEN divisors
  ELSE IF isPrimeOptimized(num) THEN Append(divisors, num)
  ELSE LET currentDivisor == findDivisor(num, sqrtFloor(num), 2)
       IN IF currentDivisor = NotFound THEN Append(divisors, num)
          ELSE calculateDivisorsLoop(num \div currentDivisor,
                                     Append(divisors, currentDivisor))

\* insertion of one entry into an ascending list
RECURSIVE insertAscending(_, _)
insertAscending(sorted, x) ==
  IF sorted = <<>> THEN <<x>>
  ELSE IF x < Head(sorted) THEN <<x>> \o sorted
  ELSE <<Head(sorted)>> \o insertAscending(Tail(sorted), x)

\* divisors.sort((a, b) => (findMax(a, b) === a ? 1 : -1))
RECURSIVE sortDivisors(_)
sortDivisors(divisors) ==
  IF divisors = <<>> THEN <<>>
  ELSE insertAscending(sortDivisors(Front(divisors)), Last(divisors))

\* the list starts as ["1"]
calculateDivisors(num) == sortDivisors(calculateDivisorsLoop(num, <<1>>))

(***************************************************************************)
(* Arguments that are no decimal string of a natural number.  kind says    *)
(* what the caller passes for v: "negative" the string "-v", "half" the    *)
(* string "v.5", "undefined" no argument at all.                           *)
(***************************************************************************)
RawKinds == {"negative", "half", "undefined"}

\* num[num.length - 1] as a number
lastDigitRaw(kind, v) == IF kind = "half" THEN 5 ELSE v % 10

\* notPrimeBasicChecker(number) on such an argument.  isDivisibleBy2 answers
\* the truthy string "Input should be a string." for a non-string; the digit
\* sum of a string holding "-" or "." is NaN, so isDivisibleBy3 and
\* isDivisibleBy6 are false; subtractNumbers("-v", "7") is "-(v+7)"
notPrimeBasicCheckerRaw(kind, v) ==
  IF kind = "undefined" THEN TRUE
  ELSE IF lastDigitRaw(kind, v) % 2 = 0 THEN TRUE
  ELSE IF lastDigitRaw(kind, v) \in {0, 5} THEN TRUE
  ELSE kind = "negative"

\* isPrimeFromTextFilesRecursiveUpdated(num) on such an argument: out is
\* "ok" with the value returned, or "storage" when the call goes on to
\* findMatchingFolder; the functions throw no input error of their own
isPrimeFromTextFilesRecursiveUpdatedRaw(kind, v) ==
  IF notPrimeBasicCheckerRaw(kind, v)
  THEN [out |-> "ok", val |-> "false"]
  ELSE [out |-> "storage", val |-> "none"]

(***************************************************************************)
(* primeHyperbolic.optimized.mjs: the partition of sieveHyperbolicParallel *)
(* and sieveHyperbolicParallelSimple.  Each worker tests every num with    *)
(* start <= num <= end of its range.                                       *)
(***************************************************************************)
ParallelThreshold == 10000

\* ranges.push({ start: chunkStart, end: chunkEnd }) for i = 0..numWorkers-1;
\* chunkSize is the BigInt quotient limit / numWorkers
chunkRanges(limit, numWorkers, largestLimit) ==
  LET chunkSize == limit \div numWorkers
      startVal == IF largestLimit # NotFound THEN largestLimit + 1 ELSE 2
  IN [i \in 1..numWorkers |->
        [start |-> startVal + (i - 1) * chunkSize,
         end |-> IF i - 1 < numWorkers - 1 THEN startVal + i * chunkSize
                 ELSE limit]]

\* findLargestExistingLimit()
findLargestExistingLimit(root, folders) ==
  IF ~root THEN NotFound ELSE findLastExistingFolderNumber(folders)

\* the steps of sieveHyperbolicParallel up to the ranges handed to the
\* workers: "sequential" below the threshold, "cached" when a folder reaches
\* the limit, RangeError for the BigInt division by 0n
parallelRanges(root, folders, limit, numWorkers) ==
  LET largestLimit == findLargestExistingLimit(root, folders)
  IN IF limit < ParallelThreshold THEN [out |-> "sequential", val |-> <<>>]
     ELSE IF largestLimit # NotFound /\ largestLimit >= limit
     THEN [out |-> "cached", val |-> <<>>]
     ELSE IF numWorkers = 0 THEN [out |-> "RangeError", val |-> <<>>]
     ELSE [out |-> "ok", val |-> chunkRanges(limit, numWorkers, largestLimit)]

ParallelNames == {"sieveHyperbolicParallel", "sieveHyperbolicParallelSimple"}

(***************************************************************************)
(* The successor functions of the candidate generators.                    *)
(***************************************************************************)
\* HybridPrimeFinder._next6kCandidate(current), on a JavaScript number
next6kCandidate(current) ==
  IF current = 2 THEN 3
  ELSE IF current = 3 THEN 5
  ELSE IF current % 6 = 5 THEN current + 2
  ELSE IF current % 6 = 1 THEN current + 4
  ELSE ((current \div 6) + 1) * 6 - 1

\* the first spoke above offset, from position pos on; 0 when there is none
RECURSIVE nextSpoke(_, _)
nextSpoke(offset, pos) ==
  IF pos >= Len(SPOKES) THEN 0
  ELSE IF offset < spoke(pos) THEN spoke(pos)
  ELSE nextSpoke(offset, pos + 1)

\* Wheel210.nextCandidate(current)
nextCandidate(current) ==
  LET num == current
      base == (num \div 210) * 210
      offset == num % 210
  IN IF num < 2 THEN 2
     ELSE IF num < 3 THEN 3
     ELSE IF num < 5 THEN 5
     ELSE IF num < 7 THEN 7
     ELSE IF num < 11 THEN 11
     ELSE IF num < 13 THEN 13
     ELSE IF nextSpoke(offset, 0) # 0 THEN base + nextSpoke(offset, 0)
     ELSE base + 210 + spoke(0)

(***************************************************************************)
(* The filter in front of the recursive oracles.                           *)
(***************************************************************************)
\* notPrimeBasicChecker of services/primeChecker.mjs, which has no case for
\* "2", "3" and "5"
notPrimeBasicCheckerPlain(number) ==
  IF number = 1 THEN TRUE
  ELSE IF isDivisibleBy2(number) THEN TRUE
  ELSE IF isDivisibleBy3(number) THEN TRUE
  ELSE IF isDivisibleBy5(number) THEN TRUE
  ELSE ~isDivisibleBy6(number - 7) /\ ~isDivisibleBy6(number - 5)

\* if (notPrimeBasicChecker(num)) return false; otherwise the oracle goes on
\* to findMatchingFolder
basicFilter(rejected) == IF rejected THEN "not prime" ELSE "lookup"

(***************************************************************************)
(* Direct calls of the pure functions: the arguments are drawn at the      *)
(* start, and each action applies one function to them.                    *)
(***************************************************************************)
MaxLow == 14
MaxArg == 130
MaxWorkers == 8
ParallelLimits == {ParallelThreshold - 1, ParallelThreshold, ParallelThreshold + 1, ParallelThreshold + 7}

\* the moduli of the three wheels
WheelBases == {6, 30, 210}

\* where the ranges of the calls with two arguments start
Lows == (0..MaxLow) \cup WheelBases

\* one argument n, or a range start..end with start <= end
ArgLists ==
  {<<n>> : n \in 0..MaxArg}
    \cup {<<a, a + w>> : a \in Lows, w \in 0..MaxArg}

InitCalc ==
  /\ rootExists = FALSE
  /\ dirs = [b \in {} |-> EmptyFolder]
  /\ pc = [p \in Procs |-> "idle"]
  /\ local = [p \in Procs |-> NoLocal]
  /\ ret = NoRet
  /\ verdict = NoVerdict
  /\ \E args \in ArgLists :
        calc = [fn |-> "none", args |-> args, out |-> "none", res |-> <<>>]

\* the call fn(args) is made and its outcome kept: out is "ok" or the name of
\* the error thrown, res the value returned
Called(fn, arity, out, res) ==
  /\ calc.fn = "none"
  /\ Len(calc.args) = arity
  /\ calc' = [calc EXCEPT !.fn = fn, !.out = out, !.res = res]
  /\ UNCHANGED <<rootExists, dirs, pc, local, ret, verdict>>

CallIsPrimeOptimized ==
  Called("isPrimeOptimized", 1, "ok", isPrimeOptimized(calc.args[1]))

CallGenerate6kCandidates ==
  Called("generate6kCandidates", 2, "ok",
         generate6kCandidates(calc.args[1], calc.args[2]))

CallGenerateCandidates ==
  Called("Wheel210.generateCandidates", 2, "ok",
         generateCandidates(calc.args[1], calc.args[2]))

CallWheel30GenerateCandidates ==
  LET r == wheel30GenerateCandidates(calc.args[1], calc.args[2])
  IN Called("Wheel30.generateCandidates", 2, r.out, r.res)

\* both sieves are run on the same limit and their results compared
CallSieves ==
  Called("sieves", 1, "ok",
         [primes6k |-> sieve6kOptimized(calc.args[1]),
          primes210 |-> sieveWheel210(calc.args[1])])

CallGeneratePrimesInRange ==
  Called("generatePrimesInRange", 2, "ok",
         generatePrimesInRange(calc.args[1], calc.args[2]))

CallFindPrimesInRange ==
  \E finder \in {HybridPrimeFinder(limit) : limit \in PrecomputeLimits} :
     Called("findPrimesInRange", 2, "ok",
            [smallPrimeLimit |-> finder.smallPrimeLimit,
             primes |-> findPrimesInRange(finder, calc.args[1], calc.args[2])])

CallPrimesInRangeWheel210 ==
  Called("primesInRangeWheel210", 2, "ok",
         primesInRangeWheel210(calc.args[1], calc.args[2]))

CallCalculateDivisors ==
  Called("calculateDivisors", 1, "ok", calculateDivisors(calc.args[1]))

\* the oracle is called with "-v", with "v.5" or with nothing
CallIsPrimeRaw ==
  \E kind \in RawKinds :
    /\ calc.args[1] >= 1
    /\ Called("isPrimeFromTextFilesRecursiveUpdated", 1,
              isPrimeFromTextFilesRecursiveUpdatedRaw(kind, calc.args[1]).out,
              [kind |-> kind,
               val |-> isPrimeFromTextFilesRecursiveUpdatedRaw(kind, calc.args[1]).val])

\* the accelerator is asked for the primes up to limit with calc.args[1]
\* workers and partitions the range
CallParallelRanges ==
  \E fn \in ParallelNames, limit \in ParallelLimits :
    /\ calc.fn = "none"
    /\ Len(calc.args) = 1
    /\ calc.args[1] <= MaxWorkers
    /\ calc' = [fn |-> fn, args |-> <<limit, calc.args[1]>>,
                out |-> parallelRanges(rootExists, dirs, limit, calc.args[1]).out,
                res |-> parallelRanges(rootExists, dirs, limit, calc.args[1]).val]
    /\ UNCHANGED <<rootExists, dirs, pc, local, ret, verdict>>

\* the three successor functions are asked for the candidate after n
CallNextCandidate ==
  Called("nextCandidate", 1, "ok",
         [findNextCandidate |-> findNextCandidate(calc.args[1]),
          next6kCandidate |-> next6kCandidate(calc.args[1]),
          wheel210 |-> nextCandidate(calc.args[1])])

\* the filter of each module is applied to n
CallNotPrimeBasicChecker ==
  Called("notPrimeBasicChecker", 1, "ok",
         [optimized |-> basicFilter(notPrimeBasicChecker(calc.args[1])),
          plain |-> basicFilter(notPrimeBasicCheckerPlain(calc.args[1]))])

NextCalc ==
  \/ CallIsPrimeOptimized
  \/ CallGenerate6kCandidates
  \/ CallGenerateCandidates
  \/ CallWheel30GenerateCandidates
  \/ CallSieves
  \/ CallGeneratePrimesInRange
  \/ CallFindPrimesInRange
  \/ CallPrimesInRangeWheel210
  \/ CallCalculateDivisors
  \/ CallIsPrimeRaw
  \/ CallParallelRanges
  \/ CallNextCandidate
  \/ CallNotPrimeBasicChecker

SpecCalc == InitCalc /\ [][NextCalc]_vars

\* C12: for every n >= 2, isPrimeOptimized(n) is true exactly when no integer
\* of 2..floor(sqrt(n)) divides n
C12_IsPrimeOptimizedIsTrialDivision ==
  (calc.fn = "isPrimeOptimized" /\ calc.args[1] >= 2)
  => (calc.res <=> \A d \in 2..sqrtFloor(calc.args[1]) : calc.args[1] % d # 0)

\* 49 = 7 * 7 passes the 6k+-1 filter and is refused by the candidate 7
C12_Witness ==
  calc.fn = "isPrimeOptimized" /\ calc.args = <<49>> /\ calc.res = FALSE

\* the candidate generator of each wheel
GeneratorOf(base) ==
  IF base = 6 THEN "generate6kCandidates"
  ELSE IF base = 30 THEN "Wheel30.generateCandidates"
  ELSE "Wheel210.generateCandidates"

\* every prime p with from < p <= to is among the candidates
Complete(candidates, from, to) ==
  \A p \in (from + 1)..to :
     TrialDivisionPrime(p) => \E i \in 1..Len(candidates) : candidates[i] = p

\* C13: for each of the mod-6, mod-30 and mod-210 generators, every prime p
\* with wheelBase < p <= limit appears in generateCandidates(wheelBase, limit)
C13_CandidatesHoldEveryPrimeAboveTheWheelBase ==
  \A base \in WheelBases :
     (calc.fn = GeneratorOf(base) /\ calc.args[1] = base)
     => /\ calc.out = "ok"
        /\ Complete(calc.res, base, calc.args[2])

C15_PrimesInRangeAreThePrimesOfTheRange ==
  /\ calc.fn \in {"generatePrimesInRange", "primesInRangeWheel210"}
       => calc.res = PrimesFromTo(calc.args[1], calc.args[2])
  /\ calc.fn = "findPrimesInRange"
       => calc.res.primes = PrimesFromTo(calc.args[1], calc.args[2])

\* the product of the entries of a list
RECURSIVE Product(_)
Product(s) == IF s = <<>> THEN 1 ELSE Head(s) * Product(Tail(s))

\* C16: factorize(n) returns the prime factors of n in order with multiplicity:
\* their product is n and each of them is prime; for n = 1 the list is empty,
\* for a prime n it is [n], and factorize(60) = [2, 2, 3, 5]
C16_FactorizeReturnsThePrimeFactors ==
  (calc.fn = "calculateDivisors" /\ calc.args[1] >= 1)
  => /\ Product(calc.res) = calc.args[1]
     /\ \A i \in 1..Len(calc.res) : TrialDivisionPrime(calc.res[i])
     /\ \A i \in 1..(Len(calc.res) - 1) : calc.res[i] <= calc.res[i + 1]
     /\ (calc.args[1] = 1 => calc.res = <<>>)
     /\ (TrialDivisionPrime(calc.args[1]) => calc.res = <<calc.args[1]>>)
     /\ (calc.args[1] = 60 => calc.res = <<2, 2, 3, 5>>)

\* the positive divisors of n, ascending
DivisorList(n) == SelectSeq([i \in 1..n |-> i], LAMBDA d : n % d = 0)

\* C17: divisorsOf(n) returns in ascending order every positive divisor of n,
\* 1 and n included (calculateDivisorsUsingText("100") gives
\* [1, 2, 4, 5, 10, 20, 25, 50, 100]); judged when a list is returned
C17_DivisorsOfReturnsEveryDivisor ==
  (verdict.fn = "calculateDivisorsUsingText" /\ verdict.res.out = "ok")
  => verdict.res.val = DivisorList(verdict.n)

(***************************************************************************)
(* The split page format (fileOperations.mjs) and the readers of a folder. *)
(***************************************************************************)
\* output<firstPrime>.txt
splitName(firstPrime) == [pre |-> "output", n |-> firstPrime]

RECURSIVE digits(_)
digits(n) == IF n < 10 THEN 1 ELSE 1 + digits(n \div 10)

\* Buffer.byteLength(prime.toString() + ',', 'utf8')
primeSize(prime) == digits(prime) + 1

\* the text of one page: an index every 20 primes, the count of the page last
RECURSIVE splitFileData(_, _, _)
splitFileData(currentFile, globalIndex, j) ==
  IF j >= Len(currentFile) THEN <<NL, Par(Len(currentFile))>>
  ELSE (IF j % 20 = 0
        THEN (IF j = 0 THEN <<>> ELSE <<NL>>) \o <<Par(globalIndex + j), Bar>>
        ELSE <<>>)
       \o <<Num(currentFile[j + 1]), Comma>>
       \o splitFileData(currentFile, globalIndex, j + 1)

\* writeDataToFile(folderPath, `output${firstPrime}.txt`, data)
writeSplitFile(folders, number, currentFile, globalIndex) ==
  writeDataToFile(folders, number, StringArg(splitName(currentFile[1])),
                  splitFileData(currentFile, globalIndex, 0))

\* the loop over the primes from position i on, then the write of what remains
RECURSIVE writePrimesLoop(_, _, _, _, _, _, _, _)
writePrimesLoop(folders, number, primes, i, currentFile, currentSize, maxSizeBytes, globalIndex) ==
  IF i > Len(primes)
  THEN (IF currentFile # <<>>
        THEN writeSplitFile(folders, number, currentFile, globalIndex)
        ELSE [err |-> "", dirs |-> folders])
  ELSE IF currentSize + primeSize(primes[i]) > maxSizeBytes /\ currentFile # <<>>
  THEN LET w == writeSplitFile(folders, number, currentFile, globalIndex)
       IN IF w.err # "" THEN w
          ELSE writePrimesLoop(w.dirs, number, primes, i + 1, <<primes[i]>>,
                               primeSize(primes[i]), maxSizeBytes,
                               globalIndex + Len(currentFile))
  ELSE writePrimesLoop(folders, number, primes, i + 1,
                       Append(currentFile, primes[i]),
                       currentSize + primeSize(primes[i]), maxSizeBytes,
                       globalIndex)

\* writePrimesToSplitFiles(folderPath, primes, maxFileSizeKB) with
\* maxSizeBytes = maxFileSizeKB * 1024
writePrimesToSplitFiles(folders, number, primes, maxSizeBytes) ==
  IF primes = <<>> THEN [err |-> "", dirs |-> folders]
  ELSE writePrimesLoop(folders, number, primes, 1, <<>>, 0, maxSizeBytes, 0)

\* the entries of a page readAllPrimesFromFolder keeps: an empty entry and an
\* entry starting with "(" are skipped, BigInt() throws on any other entry that
\* is no decimal string
RECURSIVE keptEntries(_)
keptEntries(toks) ==
  IF toks = <<>> THEN [out |-> "ok", val |-> <<>>]
  ELSE LET tok == Head(toks)
           rest == keptEntries(Tail(toks))
       IN IF tok = <<>> \/ tok[1].k = "par" THEN rest
          ELSE IF ~IsNumTok(tok) THEN [out |-> "SyntaxError", val |-> <<>>]
          ELSE IF rest.out # "ok" THEN rest
          ELSE [out |-> "ok", val |-> <<TokVal(tok)>> \o rest.val]

RECURSIVE readSplitFiles(_, _)
readSplitFiles(folder, names) ==
  IF names = <<>> THEN [out |-> "ok", val |-> <<>>]
  ELSE LET first == keptEntries(primesInFile(folder[Head(names)]))
           rest == readSplitFiles(folder, Tail(names))
       IN IF first.out # "ok" THEN first
          ELSE IF rest.out # "ok" THEN rest
          ELSE [out |-> "ok", val |-> first.val \o rest.val]

\* the split pages sorted by the number in their name, or else Output0.txt
readAllPrimesFromFolder(folders, number) ==
  IF number \notin DOMAIN folders THEN [out |-> "ok", val |-> <<>>]
  ELSE LET folder == folders[number]
           splitFiles == {f \in DOMAIN folder : f.pre = "output"}
       IN IF splitFiles # {} THEN readSplitFiles(folder, SortNames(splitFiles))
          ELSE IF OutputName(0) \in DOMAIN folder
          THEN readSplitFiles(folder, <<OutputName(0)>>)
          ELSE [out |-> "ok", val |-> <<>>]

(***************************************************************************)
(* The store written in both formats and read back.                        *)
(***************************************************************************)
StoreTargets == {10, 80}

\* maxFileSizeKB * 1024: two pages of the model, and the default of 1 MB
PageSizes == {4, 1048576}

MaxWrites == 2

\* a page is not written again once its text would pass this many pieces
MaxText == 60

\* how often the first page of folder output-number was written: each write
\* ends with a count that no " | " follows
writesTo(folders, number) ==
  IF number \notin DOMAIN folders THEN 0
  ELSE IF splitName(2) \notin DOMAIN folders[number] THEN 0
  ELSE LET text == folders[number][splitName(2)]
       IN Cardinality({i \in 1..Len(text) :
                         /\ text[i].k = "par"
                         /\ (i = Len(text) \/ text[i + 1].k # "bar")})

\* the folder is made and the primes up to N are written to it in pages
WritePrimes(N, maxSizeBytes) ==
  /\ Quiet
  /\ writesTo(dirs, N) < MaxWrites
  /\ LET primes == sieve6kOptimized(N)
         w == writePrimesToSplitFiles(createOutputFolder(dirs, N), N, primes,
                                      maxSizeBytes)
     IN /\ \A f \in DOMAIN w.dirs[N] : Len(w.dirs[N][f]) <= MaxText
        /\ rootExists' = TRUE
        /\ dirs' = w.dirs
        /\ ret' = Returned("writePrimesToSplitFiles", N,
                           IF w.err = "" THEN "ok" ELSE w.err, primes, 0)
  /\ calc' = NoCalc
  /\ UNCHANGED <<pc, local, verdict>>

\* a folder is read back by readAllPrimesFromFolder
ReadAll(N) ==
  /\ Quiet
  /\ LET r == readAllPrimesFromFolder(dirs, N)
     IN calc' = [fn |-> "readAllPrimesFromFolder", args |-> <<N>>,
                 out |-> r.out, res |-> r.val]
  /\ UNCHANGED <<rootExists, dirs, pc, local, ret, verdict>>

\* a folder is read back by readPrimesFromFolder; a missing folder reads as []
ReadPrimes(N) ==
  /\ Quiet
  /\ calc' = [fn |-> "readPrimesFromFolder", args |-> <<N>>, out |-> "ok",
              res |-> IF N \in DOMAIN dirs THEN readPrimesFromFolder(dirs[N])
                      ELSE <<>>]
  /\ UNCHANGED <<rootExists, dirs, pc, local, ret, verdict>>

NextStore ==
  \/ \E p \in Procs, N \in StoreTargets : Quiet /\ SieveStart(p, N)
  \/ \E p \in Procs : SieveCreate(p)
  \/ \E p \in Procs : SieveWrite(p)
  \/ \E N \in StoreTargets, size \in PageSizes : WritePrimes(N, size)
  \/ \E N \in StoreTargets : ReadAll(N)
  \/ \E N \in StoreTargets : ReadPrimes(N)

SpecStore == Init /\ [][NextStore]_vars

\* C18: writePrimes(N, primesUpTo(N)) followed by readAll(N) returns exactly
\* the list that was written, however many pages it was split into
C18_ReadAllReturnsWhatWritePrimesWrote ==
  (/\ calc.fn = "readAllPrimesFromFolder"
   /\ ret.op = "writePrimesToSplitFiles"
   /\ ret.n = calc.args[1])
  => /\ calc.out = "ok"
     /\ calc.res = ret.val

\* the decimal entries of the pages of a folder, the pages taken in the order
\* of the number in their name
RECURSIVE PagePrimes(_, _)
PagePrimes(folder, names) ==
  IF names = <<>> THEN <<>>
  ELSE LET entries == primesInFile(folder[Head(names)])
           decimal == SelectSeq(entries, IsNumTok)
       IN [i \in 1..Len(decimal) |-> TokVal(decimal[i])]
            \o PagePrimes(folder, Tail(names))

\* every page of the folder has the same format
OneFormat(folder) ==
  \/ \A f \in DOMAIN folder : f.pre = "output"
  \/ \A f \in DOMAIN folder : f.pre = "Output"

\* C19: readAll(bound) returns the primes of all pages of the folder
\* concatenated in page order, whether the folder is stored in the paginated
\* format (pages named by their first prime) or in the legacy format
C19_ReadAllConcatenatesThePagesOfEitherFormat ==
  [][\A N \in StoreTargets :
       (/\ ReadAll(N) \/ ReadPrimes(N)
        /\ N \in DOMAIN dirs
        /\ OneFormat(dirs[N]))
       => /\ calc'.out = "ok"
          /\ calc'.res = PagePrimes(dirs[N], SortNames(DOMAIN dirs[N]))]_vars

(***************************************************************************)
(* The oracles that do not extend the cache.                               *)
(***************************************************************************)
NonExtendingNames == {"isPrimeFromTextFiles", "isPrimeFromTextFilesUpdated", "isPrimeFromTextFilesRecursive", "isPrimeFromTextFilesRecursiveUpdated"}

C21_InvalidArgumentFailsWithInvalidInput ==
  calc.fn = "isPrimeFromTextFilesRecursiveUpdated" => calc.out = "InvalidInput"

\* the integers a worker tests
Owned(range) == range.start..range.end

\* C22: the sub-ranges handed to the workers are pairwise disjoint (no integer
\* is owned by two workers) and together cover the whole extension range, for
\* every limit and every number of workers
C22_RangesAreDisjointAndCoverTheExtension ==
  (calc.fn \in ParallelNames /\ calc.out = "ok")
  => /\ \A i, j \in DOMAIN calc.res :
          i # j => Owned(calc.res[i]) \cap Owned(calc.res[j]) = {}
     /\ UNION {Owned(calc.res[i]) : i \in DOMAIN calc.res}
          = IF findLargestExistingLimit(rootExists, dirs) = NotFound
            THEN 2..calc.args[1]
            ELSE (findLargestExistingLimit(rootExists, dirs) + 1)..calc.args[1]

\* the candidates of the mod-6 generators: the base primes 2 and 3 and the
\* numbers from 5 on that are 1 or 5 modulo 6
Candidate6(c) == c \in {2, 3} \/ (c >= 5 /\ c % 6 \in {1, 5})

\* the candidates of the mod-210 generator: the base primes and the numbers
\* above 7 that no base prime divides
Candidate210(c) ==
  \/ c \in {2, 3, 5, 7}
  \/ c > 7 /\ c % 2 # 0 /\ c % 3 # 0 /\ c % 5 # 0 /\ c % 7 # 0

\* C23: nextCandidate(current) is the smallest candidate strictly greater than
\* current, for every current >= 0, candidate or not, in findNextCandidate,
\* in HybridPrimeFinder._next6kCandidate and in Wheel210.nextCandidate
C23_NextCandidateIsTheSmallestCandidateAbove ==
  calc.fn = "nextCandidate"
  => LET n == calc.args[1]
         least6 == CHOOSE c \in (n + 1)..(n + 6) :
                     Candidate6(c) /\ \A d \in (n + 1)..(c - 1) : ~Candidate6(d)
         least210 == CHOOSE c \in (n + 1)..(n + 12) :
                       Candidate210(c) /\ \A d \in (n + 1)..(c - 1) : ~Candidate210(d)
     IN /\ calc.res.findNextCandidate = least6
        /\ calc.res.next6kCandidate = least6
        /\ calc.res.wheel210 = least210

\* C24: the lookup the oracle makes, findMatchingFolder applied to the floor
\* of the square root of n, returns the smallest existing bound that is at
\* least that root, and reports not-found only when every existing bound is
\* below it
C24_LookupReturnsTheSmallestBoundAtLeastTheRoot ==
  (/\ verdict.fn \in NonExtendingNames
   /\ verdict.fn \in MessageOracleNames \/ ~notPrimeBasicChecker(verdict.n)
   /\ rootExists
   /\ DOMAIN dirs # {})
  => LET root == sqrtFloor(verdict.n)
         atLeast == {b \in DOMAIN dirs : b >= root}
     IN findMatchingFolder(dirs, root)
          = IF atLeast = {} THEN NotFound ELSE Min(atLeast)

StrictlyIncreasing(seq) == \A i \in 1..(Len(seq) - 1) : seq[i] < seq[i + 1]

\* no prime of the set divides any value of seq above the largest of them
CoprimeAbove(seq, basePrimes) ==
  \A i \in 1..Len(seq) :
     (\A q \in basePrimes : seq[i] > q) => \A q \in basePrimes : seq[i] % q # 0

\* C25: every sequence produced by generateCandidates(start, end) is strictly
\* increasing (no value twice, none out of order), and every value in it above
\* the wheel's base primes is coprime to the wheel's base prime set
C25_CandidatesAreIncreasingAndCoprime ==
  /\ calc.fn = "generate6kCandidates"
       => StrictlyIncreasing(calc.res) /\ CoprimeAbove(calc.res, {2, 3})
  /\ calc.fn = "Wheel210.generateCandidates"
       => StrictlyIncreasing(calc.res) /\ CoprimeAbove(calc.res, {2, 3, 5, 7})

\* what the filter is to decide for n
BasicFilterDecision(n) ==
  IF n < 2 THEN "not prime"
  ELSE IF n \in {2, 3, 5} THEN "prime"
  ELSE IF n % 2 = 0 \/ n % 3 = 0 \/ n % 5 = 0 THEN "not prime"
  ELSE IF n % 6 \notin {1, 5} THEN "not prime"
  ELSE "lookup"

\* C26: the filter decides without touching the storage: n < 2 is not prime;
\* 2, 3 and 5 are prime; any other multiple of 2, 3 or 5 is not prime; any n
\* that is not 1 or 5 modulo 6 is not prime; every other n goes on to the
\* cache lookup.  In particular the filter rejects no prime
C26_BasicFilterDecides ==
  calc.fn = "notPrimeBasicChecker"
  => /\ calc.res.optimized = BasicFilterDecision(calc.args[1])
     /\ calc.res.plain = BasicFilterDecision(calc.args[1])
     /\ TrialDivisionPrime(calc.args[1])
          => calc.res.optimized # "not prime" /\ calc.res.plain # "not prime"

(***************************************************************************)
(* The lookup of a value in the page that holds it (fileOperations.mjs and *)
(* primeChecker.mjs).                                                      *)
(***************************************************************************)
\* null
NoFile == [pre |-> "null", n |-> 0]

\* a loop that takes a page only for a value above its first prime
RECURSIVE findFileLoopAboveStart(_, _, _)
findFileLoopAboveStart(files, i, targetNumber) ==
  IF i > Len(files) THEN NoFile
  ELSE IF i = Len(files)
  THEN (IF targetNumber > files[i].n THEN files[i]
        ELSE findFileLoopAboveStart(files, i + 1, targetNumber))
  ELSE IF targetNumber > files[i].n /\ targetNumber <= files[i + 1].n
  THEN files[i]
  ELSE findFileLoopAboveStart(files, i + 1, targetNumber)

\* the loop over the pages sorted by the number in their name
RECURSIVE findFileLoop(_, _, _)
findFileLoop(files, i, targetNumber) ==
  IF i > Len(files) THEN NoFile
  ELSE IF i = Len(files)
  THEN (IF targetNumber >= files[i].n THEN files[i]
        ELSE findFileLoop(files, i + 1, targetNumber))
  ELSE IF targetNumber >= files[i].n /\ targetNumber < files[i + 1].n
  THEN files[i]
  ELSE findFileLoop(files, i + 1, targetNumber)

\* findFileForNumber(folderPath, targetNumber): the pages are the files whose
\* name matches /^output\d+\.txt$/; without any, Output0.txt
findFileForNumber(folders, number, targetNumber) ==
  IF number \notin DOMAIN folders THEN NoFile
  ELSE LET folder == folders[number]
           files == SortNames({f \in DOMAIN folder : f.pre = "output"})
       IN IF files = <<>>
          THEN (IF OutputName(0) \in DOMAIN folder THEN OutputName(0) ELSE NoFile)
          ELSE findFileLoop(files, 1, targetNumber)

\* checkNumberInFile(num, folder) of primeChecker.mjs, called without a file:
\* the page is found by name and searched for "| num," and ",num,"
checkNumberInFolder(folders, number, num) ==
  LET targetFile == findFileForNumber(folders, number, num)
  IN IF targetFile = NoFile THEN FALSE
     ELSE checkNumberInFile(num, folders[number][targetFile])

PageTargets == {10, 30}
MaxValue == 31

\* a value is looked up in a folder
CheckNumber(N, v) ==
  /\ Quiet
  /\ calc = NoCalc
  /\ calc' = [fn |-> "checkNumberInFile", args |-> <<N, v>>, out |-> "ok",
              res |-> checkNumberInFolder(dirs, N, v)]
  /\ UNCHANGED <<rootExists, dirs, pc, local, ret, verdict>>

\* one caller after the other writes folders in either format; a lookup ends
\* the run
NextPages ==
  \/ \E N \in PageTargets : Quiet /\ calc = NoCalc /\ SieveStart(1, N)
  \/ SieveCreate(1)
  \/ SieveWrite(1)
  \/ \E N \in PageTargets, size \in PageSizes : calc = NoCalc /\ WritePrimes(N, size)
  \/ \E N \in PageTargets, v \in 0..MaxValue : CheckNumber(N, v)

SpecPages == Init /\ [][NextPages]_vars

\* the numbers stored in the pages of a folder
StoredIn(folder) ==
  {TokVal(tok) : tok \in {t \in UNION {{primesInFile(folder[f])[i] :
                                          i \in 1..Len(primesInFile(folder[f]))} :
                                       f \in DOMAIN folder} : IsNumTok(t)}}

\* C27: the page selected for a value from the page names alone is the one
\* that holds it: every prime stored in the folder is found in the page
\* selected for it, and a value absent from that page is absent from the folder
C27_TheSelectedPageHoldsTheValue ==
  (calc.fn = "checkNumberInFile" /\ calc.args[1] \in DOMAIN dirs)
  => (calc.res <=> calc.args[2] \in StoredIn(dirs[calc.args[1]]))

\* a prime is found in a page that is not the first of its folder
C27_Witness ==
  /\ calc.fn = "checkNumberInFile"
  /\ calc.res = TRUE
  /\ calc.args[1] \in DOMAIN dirs
  /\ findFileForNumber(dirs, calc.args[1], calc.args[2]).pre = "output"
  /\ findFileForNumber(dirs, calc.args[1], calc.args[2]).n > 2

(***************************************************************************)
(* The candidates an extension tests.                                      *)
(***************************************************************************)
\* a run that starts again at 2 and tests every number up to the target
testedCandidatesFromTwo(root, folders, number, current) ==
  [i \in 1..(number - 1) |-> i + 1]

\* the values of current on which the loop of generatePrimesRecursiveUpdated
\* calls isPrimeFromTextFilesRecursiveUpdated, in order; the loop ends when a
\* call throws
RECURSIVE testedCandidates(_, _, _, _)
testedCandidates(root, folders, number, current) ==
  IF current > number THEN <<>>
  ELSE IF isPrimeFromTextFilesRecursiveUpdated(root, folders, current) = "ENOENT"
  THEN <<current>>
  ELSE <<current>>
         \o testedCandidates(root, folders, number, findNextCandidate(current))

\* C28: when a folder for B exists and the cache is extended to N > B, the
\* extension runs its primality tests only on candidates in (B, N]: no integer
\* up to B, already settled by the first call, is tested again
C28_ExtensionTestsOnlyAboveB ==
  [][\A p \in Procs :
       GrowFinish(p)
       => LET tested == testedCandidates(rootExists, dirs, local[p].n, local[p].cur)
          IN /\ ret'.tests = Len(tested)
             /\ \A i \in 1..Len(tested) :
                  local[p].src < tested[i] /\ tested[i] <= local[p].n]_vars

\* an extension has run and has tested at least two candidates
C28_Witness ==
  /\ ret.op = "files"
  /\ ret.n \in DOMAIN dirs
  /\ ret.tests >= 2

(***************************************************************************)
(* The self-invocation of the oracles: the fallback loops of                *)
(* checkDivisorNotExistOnTextFilesUpdated and of                            *)
(* checkDivisorNotExistOnTextFilesRecursiveUpdated call                     *)
(* isPrimeFromTextFilesUpdated on every candidate they visit.               *)
(***************************************************************************)
\* the loop with the bound of the number itself
RECURSIVE selfInvocationsUpToNumber(_, _, _, _)
selfInvocationsUpToNumber(folders, number, sqrtNumber, current) ==
  IF current > number THEN <<>>
  ELSE IF /\ Truthy(isPrimeFromTextFilesUpdated(folders, current))
          /\ isDivisor(number, current)
       THEN <<current>>
  ELSE <<current>> \o selfInvocationsUpToNumber(
                        folders, number, sqrtNumber, findNextCandidate(current))

\* the candidates the loop hands to isPrimeFromTextFilesUpdated, in the order
\* of the calls: every current up to sqrtNumber, until one of them divides
RECURSIVE selfInvocations(_, _, _, _)
selfInvocations(folders, number, sqrtNumber, current) ==
  IF current > sqrtNumber THEN <<>>
  ELSE IF /\ Truthy(isPrimeFromTextFilesUpdated(folders, current))
          /\ isDivisor(number, current)
       THEN <<current>>
  ELSE <<current>> \o selfInvocations(
                        folders, number, sqrtNumber, findNextCandidate(current))

SelfInvokingNames == {"isPrimeFromTextFilesUpdated",
                      "isPrimeFromTextFilesRecursiveUpdated"}

\* the candidates one call of the oracle fn hands on: none unless the lookup
\* of the square root fails and the last folder holds no divisor
oracleSelfInvocations(fn, root, folders, num) ==
  IF fn = "isPrimeFromTextFilesRecursiveUpdated" /\ notPrimeBasicChecker(num)
  THEN <<>>
  ELSE IF ~root \/ DOMAIN folders = {} THEN <<>>
  ELSE LET sqrtNum == sqrtFloor(num)
           lastNumber == findLastExistingFolderNumber(folders)
       IN IF findMatchingFolder(folders, sqrtNum) # NotFound THEN <<>>
          ELSE IF checkDivisorFromFiles(folders, num, lastNumber) THEN <<>>
          ELSE selfInvocations(folders, num, sqrtNum, findNextCandidate(lastNumber))

\* how deep the calls of isPrimeFromTextFilesUpdated nest below one call on num
RECURSIVE invocationDepth(_, _)
invocationDepth(folders, num) ==
  LET calls == oracleSelfInvocations("isPrimeFromTextFilesUpdated", TRUE, folders, num)
  IN IF calls = <<>> THEN 0
     ELSE 1 + Max({invocationDepth(folders, calls[i]) : i \in 1..Len(calls)})

\* what a call can end with: a returned value, or the error readdirSync throws
OracleOutcomes == {"true", "false", "undefined", "ENOENT",
                   "is a prime number.", "is not a prime number.",
                   "is dividable by"}

pieceBytes(piece) ==
  IF piece.k = "num" THEN digits(piece.v)
  ELSE IF piece.k = "par" THEN digits(piece.v) + 2
  ELSE IF piece.k = "bar" THEN 3
  ELSE 1

\* Buffer.byteLength(data, 'utf8') of the text of a page
RECURSIVE byteLength(_)
byteLength(data) ==
  IF data = <<>> THEN 0 ELSE pieceBytes(Head(data)) + byteLength(Tail(data))

\* C30: after writePrimesToSplitFiles(folder, primes, maxFileSizeKB) no page
\* of the folder is larger than maxFileSizeKB * 1024 bytes
C30_NoPageExceedsTheThreshold ==
  [][\A N \in StoreTargets, size \in PageSizes :
       WritePrimes(N, size)
         => \A f \in DOMAIN dirs'[N] :
              f.pre = "output" => byteLength(dirs'[N][f]) <= size]_vars

====
